---- MODULE Spec2Model ----
(***************************************************************************)
(* Trajectory engine of the AcuTex ballistic calculators.                  *)
(*                                                                         *)
(* Floating point quantities are held in fixed point:                      *)
(*   time          ms            (0.1 s = 100)                             *)
(*   position      mm                                                      *)
(*   velocity      0.01 mm/s     (343 m/s = 34300000)                      *)
(*   acceleration  0.01 mm/s^2   (g = 980665)                              *)
(*   Cd            1/1000        (0.35 = 350)                              *)
(*   thrust        N                                                       *)
(*   mass          mg            (9.5 g = 9500)                            *)
(*   diameter      um,  area 0.01 mm^2,  air density g/m^3                 *)
(*   temperature   0.1 C,  pressure 0.01 hPa,  altitude m                  *)
(* A quotient is rounded toward zero where the code divides floats.        *)
(***************************************************************************)
EXTENDS Integers, Sequences, FiniteSets, TLC

VARIABLES
    fn,       \* name of the pure function applied last ("none" at start)
    fnArg,    \* its arguments
    fnRet     \* its return value(s), as a tuple

fnVars == <<fn, fnArg, fnRet>>

VARIABLES
    type_combo,         \* self.type_combo.currentText().lower()
    thrust_input,       \* self.thrust_input.value()
    burn_time_input,    \* self.burn_time_input.value()
    custom_drag_curve,  \* self.custom_drag_curve (None is <<>>)
    inputs,             \* the input widgets that become the call's arguments
    changes             \* how many times the user has changed a widget

widgetVars == <<type_combo, thrust_input, burn_time_input, custom_drag_curve, inputs, changes>>

VARIABLES
    edition,      \* which calculator's _calculate_trajectory runs
    pc,           \* "idle", "loop" (inside the while loop), "done", "raised"
    params,       \* the arguments of the running (or last) call
    projectile,   \* the Projectile built by the call
    environment,  \* the Environment built by the call
    state,        \* [x, y, vx, vy]
    time,         \* the loop's time
    trajectory,   \* the list of samples (x, y, t, vx, vy, speed)
    calls         \* the calls returned so far: [params, trajectory]

engineVars == <<edition, pc, params, projectile, environment, state, time, trajectory, calls>>

VARIABLES
    calculate_btn,          \* self.calculate_btn.isEnabled()
    stored,                 \* self.trajectory, the trajectory shown
    previous_trajectories,  \* self.previous_trajectories
    batch_trajectories,     \* self.batch_trajectories
    calc_thread,            \* self.calc_thread: [pc, params]
    batch_thread,           \* self.batch_thread: [pc, batch_params, results]
    monte_carlo,            \* run_monte_carlo, a loop on the UI thread: [pc, left, base]
    thread,                 \* the thread inside _calculate_trajectory: "none", "calc", "batch", "ui"
    signals,                \* signals emitted by the worker threads, queued for the UI thread
    emitted,                \* the signals each thread object has emitted: [calc, batch]
    notified,               \* the message boxes shown so far, oldest first
    requests                \* how many calculations the user has asked for

threadVars == <<calculate_btn, stored, previous_trajectories, batch_trajectories, calc_thread,
                batch_thread, monte_carlo, thread, signals, emitted, notified, requests>>

----------------------------------------------------------------------------
(* Units and program constants *)

MS == 1000        \* time units (ms) per second
MM == 1000        \* position units (mm) per metre
MPS == 100000     \* velocity units (0.01 mm/s) per m/s; acceleration likewise
SPEED_OF_SOUND == 343
GRAVITY == 980665 \* 9.80665 m/s^2

Min(a, b) == IF a <= b THEN a ELSE b
Max(a, b) == IF a >= b THEN a ELSE b
Abs(a) == IF a < 0 THEN -a ELSE a
Sign(a) == IF a < 0 THEN -1 ELSE IF a > 0 THEN 1 ELSE 0

(* Wide arithmetic: the products of the float code do not fit the checker's
   32-bit integers, so a*b/c is computed digit by digit.  The operands are
   handed over as a tuple, which the checker evaluates once. *)

\* the base in which b is read, such that c * base fits
QRBase(c) ==
    IF c < 32768 THEN 32768
    ELSE IF c < 8388608 THEN 256
    ELSE IF c < 134217728 THEN 16
    ELSE 2

(* QRLoop[<<q, r, qa, ra, n, c, base>>] is <<q', r'>> with
   q'*c + r' = q*c + r + (qa*c + ra) * n, for 0 <= r, ra < c < 2^30: the
   lowest digit of n is added, then qa*c + ra is multiplied by the base. *)
QRLoop[st \in Seq(Int)] ==
    IF st[5] = 0 THEN <<st[1], st[2]>>
    ELSE IF st[5] < st[7]
    THEN <<st[1] + st[3] * st[5] + ((st[4] * st[5] + st[2]) \div st[6]),
           (st[4] * st[5] + st[2]) % st[6]>>
    ELSE QRLoop[<<st[1] + st[3] * (st[5] % st[7])
                        + ((st[4] * (st[5] % st[7]) + st[2]) \div st[6]),
                  (st[4] * (st[5] % st[7]) + st[2]) % st[6],
                  st[3] * st[7] + ((st[4] * st[7]) \div st[6]),
                  (st[4] * st[7]) % st[6],
                  st[5] \div st[7], st[6], st[7]>>]

\* <<q, r>> with a*b = q*c + r and 0 <= r < c, for a, b >= 0 and 0 < c < 2^30
QR[p \in Seq(Int)] ==
    QRLoop[<<0, 0, p[1] \div p[3], p[1] % p[3], p[2], p[3], QRBase(p[3])>>]

MulDivOf[p \in Seq(Int)] ==
    IF p[1] = 0 \/ p[2] = 0 THEN 0
    ELSE Sign(p[1]) * Sign(p[2])
            * QR[<<Max(Abs(p[1]), Abs(p[2])), Min(Abs(p[1]), Abs(p[2])), p[3]>>][1]

\* a*b/c rounded toward zero, any signs, c > 0
MulDiv(a, b, c) == MulDivOf[<<a, b, c>>]

\* floor(sqrt(n)) for p = <<n, lo, hi>> with lo <= floor(sqrt(n)) <= hi, by bisection
IsqrtIn[p \in Seq(Int)] ==
    IF p[2] >= p[3] THEN p[2]
    ELSE IF ((p[2] + p[3] + 1) \div 2) * ((p[2] + p[3] + 1) \div 2) <= p[1]
    THEN IsqrtIn[<<p[1], (p[2] + p[3] + 1) \div 2, p[3]>>]
    ELSE IsqrtIn[<<p[1], p[2], ((p[2] + p[3] + 1) \div 2) - 1>>]

Isqrt(n) == IsqrtIn[<<n, 0, 46340>>]

\* math.hypot for p = <<|a|, |b|, s>>: the operands are scaled by s so that
\* their squares fit
HypotOf[p \in Seq(Int)] ==
    Max(Max(p[1], p[2]),
        p[3] * Isqrt((p[1] \div p[3]) * (p[1] \div p[3]) + (p[2] \div p[3]) * (p[2] \div p[3])))

\* math.hypot: exact on an axis
hypot(a, b) ==
    IF b = 0 THEN Abs(a)
    ELSE IF a = 0 THEN Abs(b)
    ELSE HypotOf[<<Abs(a), Abs(b), 1 + (Max(Abs(a), Abs(b)) \div 32767)>>]

\* mutant of MachGt: the comparison made non-strict
MachGe(velocity, th10) == velocity >= th10 * SPEED_OF_SOUND * (MPS \div 10)

\* mach > th, with mach = velocity / SPEED_OF_SOUND and th given in tenths
MachGt(velocity, th10) == velocity > th10 * SPEED_OF_SOUND * (MPS \div 10)

----------------------------------------------------------------------------
(* Interpolation helpers *)

linear_interpolate(x, x0, x1, y0, y1) ==
    IF x1 = x0 THEN y0
    ELSE y0 + MulDiv(y1 - y0, x - x0, x1 - x0)

\* lexicographic order of Python tuples (a, b)
PairLe(p, q) == p[1] < q[1] \/ (p[1] = q[1] /\ p[2] <= q[2])

RECURSIVE InsertPair(_, _)
InsertPair(p, s) ==
    IF s = <<>> THEN <<p>>
    ELSE IF PairLe(p, Head(s)) THEN <<p>> \o s
    ELSE <<Head(s)>> \o InsertPair(p, Tail(s))

\* mutant of sorted: the curve is used in the order supplied
unsorted(curve) == curve

\* sorted(curve) for a list of pairs
RECURSIVE sorted(_)
sorted(curve) ==
    IF curve = <<>> THEN <<>>
    ELSE InsertPair(Head(curve), sorted(Tail(curve)))

\* the for-loop of interpolate_curve: first i in 2..n with x < xs[i]
RECURSIVE InterpScan(_, _, _)
InterpScan(x, c, i) ==
    IF i > Len(c) THEN c[Len(c)][2]
    ELSE IF x < c[i][1]
         THEN linear_interpolate(x, c[i-1][1], c[i][1], c[i-1][2], c[i][2])
         ELSE InterpScan(x, c, i + 1)

interpolate_curve(x, curve) ==
    IF Len(curve) < 2
    THEN (IF curve # <<>> THEN curve[1][2] ELSE 0)
    ELSE LET c == sorted(curve) IN
         IF x <= c[1][1] THEN c[1][2]
         ELSE IF x >= c[Len(c)][1] THEN c[Len(c)][2]
         ELSE InterpScan(x, c, 2)

----------------------------------------------------------------------------
(* DragModel *)

G1(velocity) ==
    IF MachGt(velocity, 40) THEN 450
    ELSE IF MachGt(velocity, 30) THEN 420
    ELSE IF MachGt(velocity, 25) THEN 400
    ELSE IF MachGt(velocity, 20) THEN 380
    ELSE IF MachGt(velocity, 15) THEN 350
    ELSE IF MachGt(velocity, 12) THEN 330
    ELSE IF MachGt(velocity, 10) THEN 310
    ELSE IF MachGt(velocity, 9) THEN 300
    ELSE IF MachGt(velocity, 8) THEN 290
    ELSE IF MachGt(velocity, 7) THEN 280
    ELSE IF MachGt(velocity, 6) THEN 270
    ELSE 250

G7(velocity) ==
    IF MachGt(velocity, 40) THEN 380
    ELSE IF MachGt(velocity, 30) THEN 360
    ELSE IF MachGt(velocity, 25) THEN 340
    ELSE IF MachGt(velocity, 20) THEN 320
    ELSE IF MachGt(velocity, 15) THEN 300
    ELSE IF MachGt(velocity, 12) THEN 280
    ELSE IF MachGt(velocity, 10) THEN 260
    ELSE IF MachGt(velocity, 9) THEN 250
    ELSE IF MachGt(velocity, 8) THEN 240
    ELSE IF MachGt(velocity, 7) THEN 230
    ELSE IF MachGt(velocity, 6) THEN 220
    ELSE 210

rocket(velocity) ==
    IF MachGt(velocity, 30) THEN 500
    ELSE IF MachGt(velocity, 20) THEN 450
    ELSE IF MachGt(velocity, 15) THEN 400
    ELSE IF MachGt(velocity, 10) THEN 350
    ELSE IF MachGt(velocity, 8) THEN 300
    ELSE 250

\* a mortar table without its lowest threshold
mortar_two_thresholds(velocity) ==
    IF MachGt(velocity, 15) THEN 550
    ELSE IF MachGt(velocity, 10) THEN 500
    ELSE 400

mortar(velocity) ==
    IF MachGt(velocity, 15) THEN 550
    ELSE IF MachGt(velocity, 10) THEN 500
    ELSE IF MachGt(velocity, 8) THEN 450
    ELSE 400

custom(velocity, curve) == interpolate_curve(velocity, curve)

\* Projectile.drag_coefficient; an absent curve (None) is <<>>
drag_coefficient(drag_model, custom_drag_curve_, velocity) ==
    IF drag_model = "G1" THEN G1(velocity)
    ELSE IF drag_model = "G7" THEN G7(velocity)
    ELSE IF drag_model = "rocket" THEN rocket(velocity)
    ELSE IF drag_model = "mortar" THEN mortar(velocity)
    ELSE IF drag_model = "Custom" /\ custom_drag_curve_ # <<>>
         THEN custom(velocity, custom_drag_curve_)
    ELSE 300

----------------------------------------------------------------------------
(* Projectile: thrust and mass.  A thrust_curve dict {time: thrust} is a
   function from its keys to its values; a raise is told apart by the
   ..._raises predicate, the value being defined only where it is FALSE. *)

SetMin(S) == CHOOSE m \in S : \A e \in S : m <= e

\* sorted(d.keys())
RECURSIVE sorted_keys(_)
sorted_keys(S) ==
    IF S = {} THEN <<>>
    ELSE <<SetMin(S)>> \o sorted_keys(S \ {SetMin(S)})

\* sorted(d.items())
items(d) == sorted_keys(DOMAIN d)
sorted_items(d) == [i \in 1..Len(items(d)) |-> <<items(d)[i], d[items(d)[i]]>>]

\* the for-loop of Projectile.get_thrust: first i in 2..n with time <= times[i]
RECURSIVE ThrustScan(_, _, _, _)
ThrustScan(thrust_curve, times, time_, i) ==
    IF i > Len(times) THEN 0
    ELSE IF time_ <= times[i]
         THEN LET t0 == times[i-1]
                  t1 == times[i]
                  f0 == thrust_curve[t0]
                  f1 == thrust_curve[t1]
              IN f0 + MulDiv(f1 - f0, time_ - t0, t1 - t0)
         ELSE ThrustScan(thrust_curve, times, time_, i + 1)

\* mutant of get_thrust: thrust already cut at time = burn_time
get_thrust_cut_early(thrust_curve, burn_time, time_) ==
    IF time_ >= burn_time THEN 0
    ELSE LET times == sorted_keys(DOMAIN thrust_curve) IN
         IF times = <<>> THEN 0
         ELSE IF time_ <= times[1] THEN thrust_curve[times[1]]
         ELSE IF time_ >= times[Len(times)] THEN thrust_curve[times[Len(times)]]
         ELSE ThrustScan(thrust_curve, times, time_, 2)

\* Projectile.get_thrust (Ultimate Edition)
get_thrust(thrust_curve, burn_time, time_) ==
    IF time_ > burn_time THEN 0
    ELSE LET times == sorted_keys(DOMAIN thrust_curve) IN
         IF times = <<>> THEN 0
         ELSE IF time_ <= times[1] THEN thrust_curve[times[1]]
         ELSE IF time_ >= times[Len(times)] THEN thrust_curve[times[Len(times)]]
         ELSE ThrustScan(thrust_curve, times, time_, 2)

\* a stage loop that interpolates at the time since launch
RECURSIVE StageThrustAtGlobalTime(_, _, _, _)
StageThrustAtGlobalTime(stages, time_, i, t) ==
    IF i > Len(stages) THEN 0
    ELSE LET t1 == t + stages[i].burn_time IN
         IF t <= time_ /\ time_ < t1
         THEN interpolate_curve(time_, sorted_items(stages[i].thrust_curve))
         ELSE StageThrustAtGlobalTime(stages, time_, i + 1, t1)

\* the stage loop of Projectile.get_thrust (Beta 4); t is the stage's start
RECURSIVE StageThrust(_, _, _, _)
StageThrust(stages, time_, i, t) ==
    IF i > Len(stages) THEN 0
    ELSE LET t1 == t + stages[i].burn_time IN
         IF t <= time_ /\ time_ < t1
         THEN interpolate_curve(time_ - t, sorted_items(stages[i].thrust_curve))
         ELSE StageThrust(stages, time_, i + 1, t1)

\* a get_thrust whose stages read their curves at the time since launch
get_thrust_b4_global_time(stages, thrust_curve, burn_time, time_) ==
    IF stages # <<>> THEN StageThrustAtGlobalTime(stages, time_, 1, 0)
    ELSE IF time_ > burn_time THEN 0
    ELSE interpolate_curve(time_, sorted_items(thrust_curve))

\* Projectile.get_thrust (Beta 4)
get_thrust_b4(stages, thrust_curve, burn_time, time_) ==
    IF stages # <<>> THEN StageThrust(stages, time_, 1, 0)
    ELSE IF time_ > burn_time THEN 0
    ELSE interpolate_curve(time_, sorted_items(thrust_curve))

\* the stage loop of Projectile.get_mass (Beta 4); t is the stage's start and
\* m the mass left by the stages before
RECURSIVE StageMass(_, _, _, _, _)
StageMass(stages, time_, i, t, m) ==
    IF i > Len(stages) THEN m
    ELSE LET t1 == t + stages[i].burn_time IN
         IF t <= time_ /\ time_ < t1
         THEN m - MulDiv(stages[i].mass_loss, time_ - t, t1 - t)
         ELSE StageMass(stages, time_, i + 1, t1, m - stages[i].mass_loss)

\* a stage loop that depletes from the initial mass in every stage
RECURSIVE StageMassFromInitial(_, _, _, _, _)
StageMassFromInitial(stages, time_, i, t, m) ==
    IF i > Len(stages) THEN m
    ELSE LET t1 == t + stages[i].burn_time IN
         IF t <= time_ /\ time_ < t1
         THEN m - MulDiv(stages[i].mass_loss, time_ - t, t1 - t)
         ELSE StageMassFromInitial(stages, time_, i + 1, t1, m)

\* a get_mass that forgets the losses of the stages before the active one
get_mass_b4_from_initial(projectile_type, mass, initial_mass, stages, time_) ==
    IF projectile_type # "rocket" THEN mass
    ELSE StageMassFromInitial(stages, time_, 1, 0, initial_mass)

\* Projectile.get_mass (Beta 4) of a projectile with stages, or of another type
get_mass_b4(projectile_type, mass, initial_mass, stages, time_) ==
    IF projectile_type # "rocket" THEN mass
    ELSE StageMass(stages, time_, 1, 0, initial_mass)

\* Projectile.get_mass (Ultimate Edition): time / burn_time raises
\* ZeroDivisionError when burn_time is 0
get_mass_raises(projectile_type, burn_time, time_) ==
    ~(projectile_type # "rocket" \/ time_ > burn_time) /\ burn_time = 0

get_mass(projectile_type, mass, initial_mass, burn_time, time_) ==
    IF projectile_type # "rocket" \/ time_ > burn_time THEN mass
    ELSE initial_mass - (((initial_mass - mass) * time_) \div burn_time)

----------------------------------------------------------------------------
(* Environment: ISA table (altitude m, temperature 0.1 C, pressure 0.01 hPa) *)

ISA_TABLE == <<
    <<0, 150, 101325>>, <<1000, 85, 89876>>, <<2000, 20, 79498>>,
    <<3000, -45, 70112>>, <<4000, -110, 61660>>, <<5000, -175, 54019>>,
    <<6000, -240, 47182>>, <<7000, -305, 41055>>, <<8000, -370, 35651>>,
    <<9000, -435, 30878>>, <<10000, -500, 26500>> >>

RECURSIVE IsaScan(_, _)
IsaScan(alt, i) ==
    IF i > Len(ISA_TABLE) THEN <<ISA_TABLE[Len(ISA_TABLE)][2], ISA_TABLE[Len(ISA_TABLE)][3]>>
    ELSE IF alt < ISA_TABLE[i][1]
         THEN LET a0 == ISA_TABLE[i-1][1]
                  t0 == ISA_TABLE[i-1][2]
                  p0 == ISA_TABLE[i-1][3]
                  a1 == ISA_TABLE[i][1]
                  t1 == ISA_TABLE[i][2]
                  p1 == ISA_TABLE[i][3]
              IN <<t0 + (((alt - a0) * (t1 - t0)) \div (a1 - a0)),
                   p0 + (((alt - a0) * (p1 - p0)) \div (a1 - a0))>>
         ELSE IsaScan(alt, i + 1)

\* Environment.isa_interp (Beta 4)
isa_interp(alt) == IsaScan(alt, 2)

----------------------------------------------------------------------------
(* Trigonometry on the angles the model draws (degrees, multiples of 15);
   values are scaled by TRIG.  math.cos(math.radians(90)) is 6e-17: 0 here. *)

TRIG == 10000

SinTable == [d \in {0, 15, 30, 45, 60, 75, 90} |->
    CASE d = 0 -> 0 [] d = 15 -> 2588 [] d = 30 -> 5000 [] d = 45 -> 7071
      [] d = 60 -> 8660 [] d = 75 -> 9659 [] d = 90 -> 10000]

\* math.sin(math.radians(deg)), -360 < deg < 360
RECURSIVE sin(_)
sin(deg) ==
    IF deg < 0 THEN -sin(-deg)
    ELSE IF deg >= 180 THEN -sin(deg - 180)
    ELSE IF deg > 90 THEN SinTable[180 - deg]
    ELSE SinTable[deg]

\* math.cos(math.radians(deg))
cos(deg) == sin(deg + 90)

----------------------------------------------------------------------------
(* Environment.calculate_air_density, in g/m^3.  Arguments: altitude m,
   temperature 0.1 C, pressure Pa (the code's pressure * 100), humidity %.
   10**x and exp() are tabulated for the temperatures and altitudes the
   model draws; the arithmetic of the formula is computed. *)

Atmospheres == {
    [altitude |-> 0, temperature |-> 150, pressure |-> 101325, humidity |-> 50],
    [altitude |-> 1000, temperature |-> 150, pressure |-> 101325, humidity |-> 50],
    [altitude |-> 8000000, temperature |-> 150, pressure |-> 101325, humidity |-> 50] }

\* svp = 6.1078 * 10**((7.5 * T) / (T + 237.3)), in 0.001 hPa
SaturationVapourPressure(temperature) ==
    CASE temperature = -400 -> 184
      [] temperature = 150 -> 17052
      [] temperature = 600 -> 199300

\* math.exp(-altitude / 10000), in 1e-6
ExpAltitude(altitude) ==
    CASE altitude = 0 -> 1000000
      [] altitude = 1000 -> 904837
      [] altitude = 10000 -> 367879
      [] altitude = 8000000 -> 0

\* (pressure * 100) / (R * temp_kelvin), in mg/m^3
DryDensity(temperature, pressure) ==
    MulDiv(MulDiv(pressure, 1000000, 287058), 100000, temperature * 10 + 27315)

\* 1 - (0.378 * vp) / (pressure * 100), in 1e-6 ; pressure # 0
HumidityTerm(temperature, pressure, humidity) ==
    1000000 - Sign(pressure)
        * MulDiv(378, (SaturationVapourPressure(temperature) * humidity) \div 100, Abs(pressure))

\* the divisions by temperature + 237.3 and by pressure * 100 raise ZeroDivisionError
air_density_raises(temperature, pressure) == temperature = -2373 \/ pressure = 0

calculate_air_density(altitude, temperature, pressure, humidity) ==
    (MulDiv(MulDiv(DryDensity(temperature, pressure),
                   HumidityTerm(temperature, pressure, humidity), 1000000),
            ExpAltitude(altitude), 1000000) + 500) \div 1000

\* Environment.__init__
Environment(altitude, temperature, pressure, humidity, wind_speed, wind_angle, coriolis, latitude) ==
    [altitude |-> altitude, temperature |-> temperature, pressure |-> pressure,
     humidity |-> humidity, wind_speed |-> wind_speed, wind_angle |-> wind_angle,
     coriolis |-> coriolis, latitude |-> latitude,
     air_density |-> calculate_air_density(altitude, temperature, pressure, humidity)]

\* math.pi * (diameter/2)**2 in 0.01 mm^2, diameter in micrometres
Area(diameter) == MulDiv(((diameter \div 10) * (diameter \div 10)) \div 400, 31416, 10000)

\* Projectile.__init__ ; mass in mg
Projectile(mass, diameter, drag_model, velocity, projectile_type, thrust_curve, burn_time, custom_drag_curve_) ==
    [mass |-> mass, diameter |-> diameter, drag_model |-> drag_model,
     velocity |-> velocity, area |-> Area(diameter),
     projectile_type |-> projectile_type, thrust_curve |-> thrust_curve,
     burn_time |-> burn_time, initial_mass |-> mass,
     custom_drag_curve |-> custom_drag_curve_]

----------------------------------------------------------------------------
(* BallisticCalculator._calculate_trajectory (Ultimate Edition): derivative *)

EARTH_ROTATION_RATE == 72921  \* 7.292115e-5 rad/s, in 1e-9 rad/s

\* the closure derivative(s, t) raises ZeroDivisionError in get_mass
derivative_raises(s, t, projectile_, wind_x, wind_y) ==
    /\ get_mass_raises(projectile_.projectile_type, projectile_.burn_time, t)
    /\ hypot(s[3] - wind_x, s[4] - wind_y) > 0

\* ax, ay = -(drag_force * v_rel_x) / (mass * v_rel), -GRAVITY - ... ; per_speed
\* is drag_force / (mass * v_rel), in 1e-7 / s
DragAcceleration(v_rel_x, v_rel_y, per_speed) ==
    <<-MulDiv(per_speed, v_rel_x, 10000000),
      -GRAVITY - MulDiv(per_speed, v_rel_y, 10000000)>>

\* drag_force / (mass * v_rel) = 0.5 * rho * Cd * area * v_rel / mass, with
\* 0.5 * rho * Cd * area / mass held in 1e-9 / m
DragPerSpeed(v_rel, drag_coeff, air_density, area, m) ==
    MulDiv(5 * MulDiv(air_density * drag_coeff, area, m), v_rel, 10000000)

\* the drag and gravity part of derivative
DragAndGravity(v_rel_x, v_rel_y, v_rel, t, projectile_, environment_) ==
    IF v_rel > 0
    THEN DragAcceleration(v_rel_x, v_rel_y,
            DragPerSpeed(v_rel,
                drag_coefficient(projectile_.drag_model, projectile_.custom_drag_curve, v_rel),
                environment_.air_density, projectile_.area,
                get_mass(projectile_.projectile_type, projectile_.mass,
                         projectile_.initial_mass, projectile_.burn_time, t)))
    ELSE <<0, -GRAVITY>>

\* a thrust that keeps the launch angle at every time
ThrustAlongLaunchAngle(vx, vy, t, angle, a, a_thrust, speed) ==
    <<a[1] + MulDiv(a_thrust, cos(angle), TRIG), a[2] + MulDiv(a_thrust, sin(angle), TRIG)>>

\* ax += thrust * cos(thrust_angle) / mass, ay += thrust * sin(thrust_angle) / mass:
\* thrust_angle is the launch angle at t = 0 and atan2(vy, vx) afterwards
ThrustAlong(vx, vy, t, angle, a, a_thrust, speed) ==
    IF t = 0 THEN <<a[1] + MulDiv(a_thrust, cos(angle), TRIG),
                    a[2] + MulDiv(a_thrust, sin(angle), TRIG)>>
    ELSE IF speed = 0 THEN <<a[1] + a_thrust, a[2]>>
    ELSE <<a[1] + MulDiv(a_thrust, vx, speed), a[2] + MulDiv(a_thrust, vy, speed)>>

\* the thrust part of derivative
Thrust(vx, vy, t, projectile_, angle, a) ==
    IF projectile_.projectile_type = "rocket" /\ t < projectile_.burn_time
    THEN ThrustAlong(vx, vy, t, angle, a,
            MulDiv(get_thrust(projectile_.thrust_curve, projectile_.burn_time, t) * 1000,
                   100000000,
                   get_mass(projectile_.projectile_type, projectile_.mass,
                            projectile_.initial_mass, projectile_.burn_time, t)),
            hypot(vx, vy))
    ELSE a

\* ax += coriolis_param * vy, ay -= coriolis_param * vx
CoriolisBy(vx, vy, a, coriolis_param) ==
    <<a[1] + MulDiv(coriolis_param, vy, 1000000000),
      a[2] - MulDiv(coriolis_param, vx, 1000000000)>>

\* the Coriolis part of derivative
Coriolis(vx, vy, environment_, a) ==
    IF environment_.coriolis
    THEN CoriolisBy(vx, vy, a,
            MulDiv(2 * EARTH_ROTATION_RATE, sin(environment_.latitude), TRIG))
    ELSE a

\* return [vx, vy, ax, ay]
Derivative(vx, vy, a) == <<vx, vy, a[1], a[2]>>

\* the closure derivative(s, t)
derivative(s, t, projectile_, environment_, angle, wind_x, wind_y) ==
    Derivative(s[3], s[4],
        Coriolis(s[3], s[4], environment_,
            Thrust(s[3], s[4], t, projectile_, angle,
                DragAndGravity(s[3] - wind_x, s[4] - wind_y,
                               hypot(s[3] - wind_x, s[4] - wind_y),
                               t, projectile_, environment_))))

\* s + h * k componentwise for the step fraction h = time_step / den:
\* positions advance by velocities, velocities by accelerations
Advance(s, k, time_step, den) ==
    <<s[1] + MulDiv(k[1], time_step, den * (MPS \div MM) * MS),
      s[2] + MulDiv(k[2], time_step, den * (MPS \div MM) * MS),
      s[3] + MulDiv(k[3], time_step, den * MS),
      s[4] + MulDiv(k[4], time_step, den * MS)>>

\* mutant of TimeStep: twice the largest step, whatever the speed
TimeStepCoarse(current_vel, max_time_step, min_time_step) == 2 * max_time_step

\* a time step without the lower clamp max(min_time_step, ...)
TimeStepNoFloor(current_vel, unit, max_time_step, min_time_step) ==
    Min(max_time_step, MulDiv(max_time_step, 1000 * unit, Max(100 * unit, current_vel)))

\* time_step = max(min_time_step, min(max_time_step, max_time_step * (1000 / max(100, v))))
\* for a velocity given in 1/unit m/s
TimeStepIn(current_vel, unit, max_time_step, min_time_step) ==
    Max(min_time_step,
        Min(max_time_step, MulDiv(max_time_step, 1000 * unit, Max(100 * unit, current_vel))))

\* a time step without the upper clamp min(max_time_step, ...)
TimeStepNoCeiling(current_vel, max_time_step, min_time_step) ==
    Max(min_time_step, MulDiv(max_time_step, 1000 * MPS, Max(100 * MPS, current_vel)))

TimeStep(current_vel, max_time_step, min_time_step) ==
    TimeStepIn(current_vel, MPS, max_time_step, min_time_step)

----------------------------------------------------------------------------
(* The calculator: widgets, and _calculate_trajectory as a process *)

MAX_FLIGHT_TIME == 120000   \* while ... time < 120
MAX_TIME_STEP == 100        \* max_time_step = 0.1
MIN_TIME_STEP == 1          \* min_time_step = 0.001

InitWidgets ==
    /\ type_combo = "bullet"
    /\ thrust_input = 1000
    /\ burn_time_input = 1000
    /\ custom_drag_curve = <<>>
    /\ changes = 0

NoRecord == [none |-> TRUE]

InitEngine ==
    /\ pc = "idle"
    /\ params = NoRecord
    /\ projectile = NoRecord
    /\ environment = NoRecord
    /\ state = <<0, 0, 0, 0>>
    /\ time = 0
    /\ trajectory = <<>>
    /\ calls = <<>>

\* a thread object that does not exist or has not been started
NoThread == [pc |-> "none"]

\* BallisticCalculator.__init__: nothing calculated, no thread created
InitThreads ==
    /\ calculate_btn = TRUE
    /\ stored = <<>>
    /\ previous_trajectories = <<>>
    /\ batch_trajectories = <<>>
    /\ calc_thread = NoThread
    /\ batch_thread = NoThread
    /\ monte_carlo = [pc |-> "idle"]
    /\ thread = "none"
    /\ signals = <<>>
    /\ emitted = [calc |-> <<>>, batch |-> <<>>]
    /\ notified = <<>>
    /\ requests = 0

wind_x == MulDiv(environment.wind_speed, cos(environment.wind_angle), TRIG)
wind_y == MulDiv(environment.wind_speed, sin(environment.wind_angle), TRIG)

\* the first lines of _calculate_trajectory (Ultimate Edition): Projectile and
\* Environment are built, the former from the arguments and from the widgets;
\* empty_list is the representation of trajectory = []
BeginUltimateWith(p, empty_list) ==
    /\ params' = p
    /\ projectile' = Projectile(p.mass, p.diameter, p.drag_model, p.velocity,
                                type_combo, (0 :> thrust_input),
                                IF type_combo = "rocket" THEN burn_time_input ELSE 0,
                                custom_drag_curve)
    /\ environment' = Environment(p.altitude, p.temperature, p.pressure, p.humidity,
                                  p.wind_speed, p.wind_angle, p.coriolis, p.latitude)
    /\ state' = <<0, 0, MulDiv(p.velocity, cos(p.angle), TRIG),
                        MulDiv(p.velocity, sin(p.angle), TRIG)>>
    /\ trajectory' = empty_list
    /\ time' = 0
    /\ pc' = "loop"

BeginUltimate(p) == BeginUltimateWith(p, <<>>)

\* a loop that goes on down to one metre below the launch height
LoopCondOneMetreLow == state[2] >= -MM /\ time < MAX_FLIGHT_TIME

\* while state[1] >= 0 and time < 120
LoopCondUltimate == state[2] >= 0 /\ time < MAX_FLIGHT_TIME

\* a sample that records the height as 0
SampleOnTheGround == <<state[1], 0, time, state[3], state[4], hypot(state[3], state[4])>>

Sample == <<state[1], state[2], time, state[3], state[4], hypot(state[3], state[4])>>

\* derivative(s, t) is evaluated after the evaluations in prev: the list stays
\* as it is where derivative raises
RK4Evaluate(prev, s, t) ==
    IF derivative_raises(s, t, projectile, wind_x, wind_y) THEN prev
    ELSE Append(prev, derivative(s, t, projectile, environment, params.angle,
                                 wind_x, wind_y))

\* the n-th evaluation: derivative(state + h * k(n-1), time + h) for
\* h = 0, time_step/2, time_step/2, time_step
RK4Stage(n, time_step, prev) ==
    IF Len(prev) < n - 1 THEN prev
    ELSE IF n = 1 THEN RK4Evaluate(prev, state, time)
    ELSE IF n = 4 THEN RK4Evaluate(prev, Advance(state, prev[3], time_step, 1),
                                   time + time_step)
    ELSE RK4Evaluate(prev, Advance(state, prev[n - 1], time_step, 2),
                     time + (time_step \div 2))

\* <<k1, .., kn>>, shorter where derivative raised
RECURSIVE RK4Stages(_, _)
RK4Stages(n, time_step) ==
    IF n = 0 THEN <<>>
    ELSE RK4Stage(n, time_step, RK4Stages(n - 1, time_step))

\* state[i] += (time_step / 6.0) * (k1[i] + 2*k2[i] + 2*k3[i] + k4[i]); time += time_step
RK4Update(time_step, k) ==
    IF Len(k) < 4
    THEN /\ pc' = "raised"
         /\ UNCHANGED <<state, time>>
    ELSE /\ pc' = "loop"
         /\ state' = <<state[1] + MulDiv(k[1][1] + k[4][1], time_step, 6 * (MPS \div MM) * MS)
                                 + MulDiv(k[2][1] + k[3][1], time_step, 3 * (MPS \div MM) * MS),
                       state[2] + MulDiv(k[1][2] + k[4][2], time_step, 6 * (MPS \div MM) * MS)
                                 + MulDiv(k[2][2] + k[3][2], time_step, 3 * (MPS \div MM) * MS),
                       state[3] + MulDiv(k[1][3] + k[4][3], time_step, 6 * MS)
                                 + MulDiv(k[2][3] + k[3][3], time_step, 3 * MS),
                       state[4] + MulDiv(k[1][4] + k[4][4], time_step, 6 * MS)
                                 + MulDiv(k[2][4] + k[3][4], time_step, 3 * MS)>>
         /\ time' = time + time_step

RK4Step(time_step) == RK4Update(time_step, RK4Stages(4, time_step))

\* one iteration of the while loop (Ultimate Edition); an exception raised by
\* derivative leaves the function; appended is the list after
\* trajectory.append(...)
StepUltimateWith(appended) ==
    /\ pc = "loop"
    /\ edition = "ultimate"
    /\ LoopCondUltimate
    /\ trajectory' = appended
    /\ RK4Step(TimeStep(hypot(state[3], state[4]), MAX_TIME_STEP, MIN_TIME_STEP))
    /\ UNCHANGED <<fnVars, threadVars, widgetVars, edition, params, projectile, environment, calls>>

StepUltimate == StepUltimateWith(Append(trajectory, Sample))

\* while y >= 0 and t < 120 (Beta 5)
LoopCondBeta5 == state[2] >= 0 /\ time < MAX_FLIGHT_TIME

\* while y >= 0 (cal1)
LoopCondCal1 == state[2] >= 0

\* while y >= -elevation_diff and step_count < max_steps (hopev3); one
\* tuple is appended per iteration, so step_count is len(trajectory)
max_steps == 10000

LoopCondHope == state[2] >= -params.elevation_diff /\ Len(trajectory) < max_steps

LoopCond ==
    IF edition = "ultimate" THEN LoopCondUltimate
    ELSE IF edition = "beta5" THEN LoopCondBeta5
    ELSE IF edition = "hopev3" THEN LoopCondHope
    ELSE LoopCondCal1

\* return trajectory
Return ==
    /\ pc = "loop"
    /\ ~LoopCond
    /\ pc' = "done"
    /\ calls' = Append(calls, [params |-> params, trajectory |-> trajectory])
    /\ UNCHANGED <<fnVars, threadVars, widgetVars, edition, params, projectile, environment,
                   state, time, trajectory>>

----------------------------------------------------------------------------
(* Inputs of the function-level specification *)

MaxCurveLen == 3

\* the Mach thresholds of the standard tables, in tenths
Thresholds == {6, 7, 8, 9, 10, 12, 15, 20, 25, 30, 40}

\* velocities at, just below and just above every threshold, and 0
BreakVelocities ==
    {0} \cup {th * SPEED_OF_SOUND * (MPS \div 10) + d : th \in Thresholds, d \in {-1, 0, 1}}

StandardModels == {"G1", "G7", "rocket", "mortar"}

CurvePoints == {<<v * MPS, cd>> : v \in {100, 200, 300}, cd \in {300, 500}}
CurveVelocities == {50 * MPS, 100 * MPS, 150 * MPS, 200 * MPS, 250 * MPS, 300 * MPS, 400 * MPS}

Curves == UNION {[1..n -> CurvePoints] : n \in 0..MaxCurveLen}

\* a custom drag curve that removes drag (Cd = 0 at every velocity)
ZeroDragCurve == << <<100 * MPS, 0>>, <<300 * MPS, 0>> >>

ThrustTimes == {0, 600, 1200}
ThrustValues == {0, 1000, 2000}
ThrustCurves == UNION {[K -> ThrustValues] : K \in SUBSET ThrustTimes}
BurnTimes == {0, 600, 1200, 2000}
QueryTimes == {-100, 0, 300, 600, 900, 1200, 1300, 2500}

\* bodies (mass mg, diameter um) and the standard atmosphere at sea level
Bullet == [mass |-> 9500, diameter |-> 7820]
MortarBomb == [mass |-> 3200000, diameter |-> 82000]
Shell == [mass |-> 43000000, diameter |-> 155000]

SeaLevel == [altitude |-> 0, temperature |-> 150, pressure |-> 101325, humidity |-> 50]

IsaAltitudes == {-100, -1, 10001, 12000} \cup {k * 250 : k \in 0..40}

----------------------------------------------------------------------------
(* Function-level specification: each action applies one function of the
   engine, once, to inputs drawn from the sets above. *)

InitFn ==
    /\ fn = "none"
    /\ fnArg = <<>>
    /\ fnRet = <<>>
    /\ InitWidgets
    /\ InitEngine
    /\ InitThreads
    /\ inputs = NoRecord
    /\ edition = "ultimate"

CallDragModel ==
    /\ fn = "none"
    /\ UNCHANGED <<widgetVars, engineVars, threadVars>>
    /\ \E m \in {"G1", "G7"}, v \in BreakVelocities :
        /\ fn' = m
        /\ fnArg' = [velocity |-> v]
        /\ fnRet' = <<IF m = "G1" THEN G1(v) ELSE G7(v)>>

CallDragCoefficient ==
    /\ fn = "none"
    /\ UNCHANGED <<widgetVars, engineVars, threadVars>>
    /\ \E m \in StandardModels \cup {"Custom", "G8"}, c \in Curves \cup {ZeroDragCurve},
       v \in CurveVelocities \cup BreakVelocities :
        /\ fn' = "drag_coefficient"
        /\ fnArg' = [drag_model |-> m, custom_drag_curve |-> c, velocity |-> v]
        /\ fnRet' = <<drag_coefficient(m, c, v)>>

CallGetThrust ==
    /\ fn = "none"
    /\ UNCHANGED <<widgetVars, engineVars, threadVars>>
    /\ \E c \in ThrustCurves, b \in BurnTimes, t \in QueryTimes :
        /\ fn' = "get_thrust"
        /\ fnArg' = [thrust_curve |-> c, burn_time |-> b, time |-> t]
        /\ fnRet' = <<get_thrust(c, b, t)>>

CallGetThrustB4 ==
    /\ fn = "none"
    /\ UNCHANGED <<widgetVars, engineVars, threadVars>>
    /\ \E c \in ThrustCurves, b \in BurnTimes, t \in QueryTimes :
        /\ fn' = "get_thrust_b4"
        /\ fnArg' = [thrust_curve |-> c, burn_time |-> b, time |-> t]
        /\ fnRet' = <<get_thrust_b4(<<>>, c, b, t)>>

CallIsaInterp ==
    /\ fn = "none"
    /\ UNCHANGED <<widgetVars, engineVars, threadVars>>
    /\ \E alt \in IsaAltitudes :
        /\ fn' = "isa_interp"
        /\ fnArg' = [alt |-> alt]
        /\ fnRet' = isa_interp(alt)

\* the arguments of the calls of calculate_air_density: the model's atmospheres,
\* the corners of the input widgets' ranges, and a thin hot humid atmosphere
AirDensityArguments ==
    Atmospheres \cup
    {[altitude |-> a, temperature |-> t, pressure |-> p, humidity |-> h] :
        a \in {0, 10000}, t \in {-400, 600}, p \in {0, 1, 80000, 110000}, h \in {0, 100}}

CallAirDensity ==
    /\ fn = "none"
    /\ UNCHANGED <<widgetVars, engineVars, threadVars>>
    /\ \E e \in AirDensityArguments :
        /\ fn' = "calculate_air_density"
        /\ fnArg' = e
        /\ fnRet' = IF air_density_raises(e.temperature, e.pressure) THEN <<>>
                    ELSE <<calculate_air_density(e.altitude, e.temperature, e.pressure, e.humidity)>>

\* speeds in m/s around the two corners of the step size formula
StepSpeeds ==
    {0, 50, 100, 101, 830, 999, 1000, 1001, 1500, 3000, 5000, 70000, 99999, 100000, 100001, 150000}

\* the time_step expression of the while loop, in microseconds for a speed in m/s
CallTimeStep ==
    /\ fn = "none"
    /\ UNCHANGED <<widgetVars, engineVars, threadVars>>
    /\ \E v \in StepSpeeds :
        /\ fn' = "time_step"
        /\ fnArg' = [current_vel |-> v]
        /\ fnRet' = <<TimeStepIn(v, 1, MAX_TIME_STEP * 1000, MIN_TIME_STEP * 1000)>>

\* states, times and settings at which derivative is evaluated: at rest, with
\* the wind, along and across the launch angle; t = 0, inside and at the end
\* of the burn, and after it
DerivativeVelocities ==
    {<<0, 0>>, <<300 * MPS, 0>>, <<200 * MPS, 200 * MPS>>, <<0, -100 * MPS>>,
     <<-100 * MPS, 50 * MPS>>}
DerivativeTimes == {0, 50, 100, 999, 1000, 1500}
DerivativeArguments ==
    [velocity : DerivativeVelocities, t : DerivativeTimes,
     projectile_type : {"bullet", "rocket", "mortar"}, burn_time : {0, 1000},
     angle : {0, 45}, wind : {<<0, 0>>, <<300 * MPS, 0>>}, coriolis : BOOLEAN]

DerivativeProjectile(e) ==
    Projectile(Shell.mass, Shell.diameter, "G7", 300 * MPS, e.projectile_type, (0 :> 1000),
               IF e.projectile_type = "rocket" THEN e.burn_time ELSE 0, <<>>)

DerivativeEnvironment(e) ==
    Environment(0, 150, 101325, 50, e.wind[1], 0, e.coriolis, 45)

\* derivative(s, t), the closure of _calculate_trajectory
CallDerivative ==
    /\ fn = "none"
    /\ UNCHANGED <<widgetVars, engineVars, threadVars>>
    /\ \E e \in DerivativeArguments :
        /\ fn' = "derivative"
        /\ fnArg' = e
        /\ fnRet' = IF derivative_raises(<<0, 0, e.velocity[1], e.velocity[2]>>, e.t,
                                         DerivativeProjectile(e), e.wind[1], e.wind[2])
                    THEN <<>>
                    ELSE <<derivative(<<0, 0, e.velocity[1], e.velocity[2]>>, e.t,
                                      DerivativeProjectile(e), DerivativeEnvironment(e),
                                      e.angle, e.wind[1], e.wind[2])>>

\* stage lists [{burn_time, mass_loss, thrust_curve}] (ms, mg, N)
MaxStages == 2
StageKinds ==
    [burn_time : {0, 600}, mass_loss : {0, 1000000},
     thrust_curve : {<<>>, (0 :> 1000), (0 :> 2000) @@ (600 :> 0)}]
StageLists == UNION {[1..n -> StageKinds] : n \in 1..MaxStages}

\* Projectile.get_thrust (Beta 4) of a projectile with stages
CallGetThrustStaged ==
    /\ fn = "none"
    /\ UNCHANGED <<widgetVars, engineVars, threadVars>>
    /\ \E st \in StageLists, t \in QueryTimes :
        /\ fn' = "get_thrust_staged"
        /\ fnArg' = [stages |-> st, time |-> t]
        /\ fnRet' = <<get_thrust_b4(st, <<>>, 0, t)>>

\* Projectile.get_mass (Beta 4) of a rocket with stages, and of a shell
CallGetMassStaged ==
    /\ fn = "none"
    /\ UNCHANGED <<widgetVars, engineVars, threadVars>>
    /\ \E st \in StageLists, t \in QueryTimes, type \in {"rocket", "bullet"} :
        /\ fn' = "get_mass_staged"
        /\ fnArg' = [stages |-> st, time |-> t, projectile_type |-> type, mass |-> Shell.mass]
        /\ fnRet' = <<get_mass_b4(type, Shell.mass, Shell.mass, st, t)>>

NextFn ==
    \/ CallGetThrustStaged
    \/ CallGetMassStaged
    \/ CallDerivative
    \/ CallTimeStep
    \/ CallAirDensity
    \/ CallDragModel
    \/ CallDragCoefficient
    \/ CallGetThrust
    \/ CallGetThrustB4
    \/ CallIsaInterp

vars == <<fnVars, widgetVars, engineVars, threadVars>>

SpecFn == InitFn /\ [][NextFn]_vars

----------------------------------------------------------------------------
(* Claims on the lookup functions (checked under SpecFn) *)

(* C26: a degenerate custom drag curve yields a defined value through
   drag_coefficient: a curve with exactly one point returns that point's Cd
   for every velocity, and an empty curve returns 0. *)
C26_DegenerateCurve ==
    fn = "drag_coefficient" /\ fnArg.drag_model = "Custom" =>
        /\ Len(fnArg.custom_drag_curve) = 1 => fnRet[1] = fnArg.custom_drag_curve[1][2]
        /\ Len(fnArg.custom_drag_curve) = 0 => fnRet[1] = 0

(* C22: thrust is added to the acceleration only for a rocket with
   t < burn_time, with magnitude thrust(t) / mass(t); it points along the
   launch angle when t is exactly 0 and along the velocity heading
   atan2(vy, vx) of the evaluated state for every t > 0; for other types or
   t >= burn_time the acceleration has no thrust term. *)

\* the acceleration of the evaluated state without thrust: drag, gravity, Coriolis
Unpowered(e) ==
    Coriolis(e.velocity[1], e.velocity[2], DerivativeEnvironment(e),
        DragAndGravity(e.velocity[1] - e.wind[1], e.velocity[2] - e.wind[2],
                       hypot(e.velocity[1] - e.wind[1], e.velocity[2] - e.wind[2]),
                       e.t, DerivativeProjectile(e), DerivativeEnvironment(e)))

\* thrust(t) / mass(t), in the units of an acceleration
ThrustPerMass(e) ==
    MulDiv(get_thrust(DerivativeProjectile(e).thrust_curve, e.burn_time, e.t) * 1000, 100000000,
           get_mass(e.projectile_type, Shell.mass, Shell.mass, e.burn_time, e.t))

\* the unit vector, scaled by n, of the heading atan2(vy, vx); atan2(0, 0) = 0
Heading(vx, vy, n) ==
    IF hypot(vx, vy) = 0 THEN <<n, 0>>
    ELSE <<MulDiv(n, vx, hypot(vx, vy)), MulDiv(n, vy, hypot(vx, vy))>>

C22_ThrustTerm ==
    fn = "derivative" /\ fnRet # <<>> =>
        LET thrust_term == <<fnRet[1][3] - Unpowered(fnArg)[1], fnRet[1][4] - Unpowered(fnArg)[2]>>
        IN IF fnArg.projectile_type = "rocket" /\ fnArg.t < fnArg.burn_time
           THEN IF fnArg.t = 0
                THEN thrust_term = <<MulDiv(ThrustPerMass(fnArg), cos(fnArg.angle), TRIG),
                                     MulDiv(ThrustPerMass(fnArg), sin(fnArg.angle), TRIG)>>
                ELSE thrust_term = Heading(fnArg.velocity[1], fnArg.velocity[2],
                                           ThrustPerMass(fnArg))
           ELSE thrust_term = <<0, 0>>

\* an intermediate evaluation (t = time_step / 2) of a rocket that moves
\* across its launch angle
C22_Witness ==
    /\ fn = "derivative"
    /\ fnArg.projectile_type = "rocket"
    /\ fnArg.burn_time = 1000
    /\ fnArg.t = 50
    /\ fnArg.angle = 0
    /\ fnArg.velocity = <<200 * MPS, 200 * MPS>>
    /\ fnRet # <<>>
    /\ fnRet[1][4] - Unpowered(fnArg)[2] > 0

(* C21: the step size is clamp(dtMax * (1000 / max(100, |v|)), dtMin, dtMax)
   with dtMin = 0.001 and dtMax = 0.1: it always lies in [dtMin, dtMax], is
   dtMax whenever |v| <= 1000 m/s, is 100/|v| for 1000 < |v| < 100000, and
   is dtMin above that.  Times in microseconds, speeds in m/s. *)
C21_StepSizeClamped ==
    fn = "time_step" =>
        /\ fnRet[1] >= MIN_TIME_STEP * 1000
        /\ fnRet[1] <= MAX_TIME_STEP * 1000
        /\ fnArg.current_vel <= 1000 => fnRet[1] = MAX_TIME_STEP * 1000
        /\ fnArg.current_vel > 1000 /\ fnArg.current_vel < 100000
            => /\ fnRet[1] * fnArg.current_vel <= 100 * 1000000
               /\ (fnRet[1] + 1) * fnArg.current_vel > 100 * 1000000
        /\ fnArg.current_vel >= 100000 => fnRet[1] = MIN_TIME_STEP * 1000

C21_Witness ==
    /\ fn = "time_step"
    /\ fnArg.current_vel = 150000
    /\ fnRet[1] = MIN_TIME_STEP * 1000

(* C20: for each standard model and every velocity >= 0 the returned Cd is
   the value of the first threshold of the model's descending list that
   Mach = velocity / 343 strictly exceeds, or the else-value when it exceeds
   none; a Mach equal to a threshold gets the value of the next lower bucket. *)

\* the lists as <<threshold in tenths of Mach, Cd in 1/1000>>
BucketList(model) ==
    CASE model = "G1" -> << <<40, 450>>, <<30, 420>>, <<25, 400>>, <<20, 380>>, <<15, 350>>,
                            <<12, 330>>, <<10, 310>>, <<9, 300>>, <<8, 290>>, <<7, 280>>,
                            <<6, 270>> >>
      [] model = "G7" -> << <<40, 380>>, <<30, 360>>, <<25, 340>>, <<20, 320>>, <<15, 300>>,
                            <<12, 280>>, <<10, 260>>, <<9, 250>>, <<8, 240>>, <<7, 230>>,
                            <<6, 220>> >>
      [] model = "rocket" -> << <<30, 500>>, <<20, 450>>, <<15, 400>>, <<10, 350>>, <<8, 300>> >>
      [] model = "mortar" -> << <<15, 550>>, <<10, 500>>, <<8, 450>> >>

ElseValue(model) ==
    CASE model = "G1" -> 250
      [] model = "G7" -> 210
      [] model = "rocket" -> 250
      [] model = "mortar" -> 400

\* the value of bucket i of a list, the else-value after the last threshold
BucketValue(model, i) ==
    IF i <= Len(BucketList(model)) THEN BucketList(model)[i][2] ELSE ElseValue(model)

\* the thresholds of a list that velocity / 343 strictly exceeds
Exceeded(model, velocity) ==
    {i \in 1..Len(BucketList(model)) :
        10 * velocity > BucketList(model)[i][1] * SPEED_OF_SOUND * MPS}

\* the first bucket of the list whose threshold is exceeded
FirstExceeded(model, velocity) ==
    IF Exceeded(model, velocity) = {} THEN Len(BucketList(model)) + 1
    ELSE CHOOSE i \in Exceeded(model, velocity) : \A j \in Exceeded(model, velocity) : i <= j

C20_FirstExceededThreshold ==
    fn = "drag_coefficient" /\ fnArg.drag_model \in StandardModels /\ fnArg.velocity >= 0
    => /\ fnRet[1] = BucketValue(fnArg.drag_model, FirstExceeded(fnArg.drag_model, fnArg.velocity))
       /\ \A i \in 1..Len(BucketList(fnArg.drag_model)) :
            10 * fnArg.velocity = BucketList(fnArg.drag_model)[i][1] * SPEED_OF_SOUND * MPS
            => fnRet[1] = BucketValue(fnArg.drag_model, i + 1)

\* mortar at Mach exactly 0.8: the else-value
C20_Witness ==
    /\ fn = "drag_coefficient"
    /\ fnArg.drag_model = "mortar"
    /\ 10 * fnArg.velocity = 8 * SPEED_OF_SOUND * MPS
    /\ fnRet[1] = 400

(* C17: for every drag model (G1, G7, rocket, mortar, a custom curve, an
   unknown name) and every velocity >= 0, drag_coefficient returns a strictly
   positive Cd. *)
C17_DragCoefficientPositive ==
    fn = "drag_coefficient" /\ fnArg.velocity >= 0 => fnRet[1] > 0

(* C16: calculate_air_density returns a density that is strictly positive
   (floored at a small positive epsilon) for every temperature, pressure,
   humidity and altitude, pressure 0 and a humidity term <= 0 included. *)
C16_AirDensityPositive ==
    fn = "calculate_air_density" => Len(fnRet) = 1 /\ fnRet[1] > 0

Mach15 == 15 * SPEED_OF_SOUND * (MPS \div 10)

\* C4, as stated: at the exact breakpoint velocity 343*1.5 m/s (Mach 1.5)
\* DragModel.G1 returns 0.35 and DragModel.G7 returns 0.30.
C4_BreakpointUpperBucket ==
    /\ (fn = "G1" /\ fnArg.velocity = Mach15) => fnRet[1] = 350
    /\ (fn = "G7" /\ fnArg.velocity = Mach15) => fnRet[1] = 300

\* C4, amended: the thresholds are strict, so at Mach exactly 1.5 G1 returns
\* 0.33 and G7 returns 0.28 (the > 1.2 bucket); 0.35 and 0.30 are returned
\* only above the breakpoint.
C4_BreakpointLowerBucket ==
    /\ (fn = "G1" /\ fnArg.velocity = Mach15) => fnRet[1] = 330
    /\ (fn = "G7" /\ fnArg.velocity = Mach15) => fnRet[1] = 280
    /\ (fn = "G1" /\ fnArg.velocity = Mach15 + 1) => fnRet[1] = 350
    /\ (fn = "G7" /\ fnArg.velocity = Mach15 + 1) => fnRet[1] = 300

C4_Witness == fn = "G1" /\ fnArg.velocity = Mach15 /\ fnRet[1] = 330

\* the points of a curve, and its extreme points in the sort order
CurveSet(c) == {c[i] : i \in 1..Len(c)}
PairMin(P) == CHOOSE p \in P : \A q \in P : PairLe(p, q)
PairMax(P) == CHOOSE p \in P : \A q \in P : PairLe(q, p)

\* clamped piecewise-linear value of a set P of (x, y) points at x
PiecewiseLinear(P, x) ==
    IF x <= PairMin(P)[1] THEN PairMin(P)[2]
    ELSE IF x >= PairMax(P)[1] THEN PairMax(P)[2]
    ELSE LET L == PairMax({p \in P : p[1] <= x})
             R == PairMin({p \in P : p[1] > x})
         IN L[2] + MulDiv(R[2] - L[2], x - L[1], R[1] - L[1])

ExampleCurves ==
    {<< <<100 * MPS, 300>>, <<300 * MPS, 500>> >>, << <<300 * MPS, 500>>, <<100 * MPS, 300>> >>}

\* C5: for a custom curve of at least 2 points drag_coefficient is the first
\* point's Cd at or below the lowest velocity, the last point's Cd at or above
\* the highest, the linear interpolation of the bracketing points otherwise,
\* whatever the order of the points; [(100,0.3),(300,0.5)] gives 0.4, 0.3, 0.5
\* at 200, 50, 400; an interior breakpoint returns a Cd given for it.
C5_CustomCurveInterpolation ==
    (fn = "drag_coefficient" /\ fnArg.drag_model = "Custom"
        /\ Len(fnArg.custom_drag_curve) >= 2) =>
    LET P == CurveSet(fnArg.custom_drag_curve)
        v == fnArg.velocity
    IN /\ fnRet[1] = PiecewiseLinear(P, v)
       /\ (\E p \in P : p[1] = v) => \E p \in P : p[1] = v /\ p[2] = fnRet[1]
       /\ fnArg.custom_drag_curve \in ExampleCurves =>
            /\ v = 200 * MPS => fnRet[1] = 400
            /\ v = 50 * MPS => fnRet[1] = 300
            /\ v = 400 * MPS => fnRet[1] = 500

C5_Witness ==
    /\ fn = "drag_coefficient"
    /\ fnArg.drag_model = "Custom"
    /\ fnArg.custom_drag_curve = << <<300 * MPS, 500>>, <<100 * MPS, 300>> >>
    /\ fnArg.velocity = 200 * MPS
    /\ fnRet[1] = 400

\* the (time, thrust) points of a thrust_curve dict
ThrustPoints(c) == {<<k, c[k]>> : k \in DOMAIN c}

\* C6: single-stage thrust(t) is 0 for t > burnTime; for t <= burnTime it is
\* the clamped piecewise-linear interpolation of the time-sorted curve, with
\* the breakpoint's value at a breakpoint; {0:2000, 1.2:0} with burnTime 1.2
\* gives thrust(0.6) = 1000 and thrust(1.3) = 0.
C6_SingleStageThrust ==
    (fn \in {"get_thrust", "get_thrust_b4"} /\ DOMAIN fnArg.thrust_curve # {}) =>
    LET c == fnArg.thrust_curve
        t == fnArg.time
    IN /\ t > fnArg.burn_time => fnRet[1] = 0
       /\ t <= fnArg.burn_time => fnRet[1] = PiecewiseLinear(ThrustPoints(c), t)
       /\ (t <= fnArg.burn_time /\ t \in DOMAIN c) => fnRet[1] = c[t]
       /\ (DOMAIN c = {0, 1200} /\ c[0] = 2000 /\ c[1200] = 0 /\ fnArg.burn_time = 1200) =>
            /\ t = 600 => fnRet[1] = 1000
            /\ t = 1300 => fnRet[1] = 0

C6_Witness ==
    /\ fn = "get_thrust"
    /\ DOMAIN fnArg.thrust_curve = {0, 1200}
    /\ fnArg.thrust_curve[0] = 2000 /\ fnArg.thrust_curve[1200] = 0
    /\ fnArg.burn_time = 1200 /\ fnArg.time = 600
    /\ fnRet[1] = 1000

\* b1 + .. + b(i-1): the start of stage i; the end of the last stage for i = n + 1
RECURSIVE StageStart(_, _)
StageStart(stages, i) ==
    IF i = 1 THEN 0 ELSE StageStart(stages, i - 1) + stages[i - 1].burn_time

\* the sum of massLoss of the stages 1 .. i
RECURSIVE LossThrough(_, _)
LossThrough(stages, i) ==
    IF i = 0 THEN 0 ELSE LossThrough(stages, i - 1) + stages[i].mass_loss

\* stage i is active at t: b1 + .. + b(i-1) <= t < b1 + .. + bi
StageActive(stages, i, t) == StageStart(stages, i) <= t /\ t < StageStart(stages, i + 1)

\* the clamped piecewise-linear value of a thrust curve; 0 for an empty curve
CurveValue(c, x) == IF DOMAIN c = {} THEN 0 ELSE PiecewiseLinear(ThrustPoints(c), x)

(* C24: staged get_thrust: stage i is active exactly when
   b1 + .. + b(i-1) <= t < b1 + .. + bi, and thrust(t) is then the clamped
   piecewise-linear interpolation of stage i's own curve at the local time
   t - (b1 + .. + b(i-1)); at or after the sum of all burn times, and for
   t < 0, thrust is 0; a stage with burn time 0 is never active. *)
C24_StagedThrust ==
    fn = "get_thrust_staged" =>
        LET st == fnArg.stages
            t == fnArg.time
        IN /\ \A i \in 1..Len(st) :
                StageActive(st, i, t) =>
                    /\ fnRet[1] = CurveValue(st[i].thrust_curve, t - StageStart(st, i))
                    /\ st[i].burn_time # 0
           /\ (t < 0 \/ t >= StageStart(st, Len(st) + 1)) => fnRet[1] = 0
           /\ (\A i \in 1..Len(st) : ~StageActive(st, i, t)) => fnRet[1] = 0

\* the second stage is active and its curve is read at the local time 300
C24_Witness ==
    /\ fn = "get_thrust_staged"
    /\ Len(fnArg.stages) = 2
    /\ fnArg.stages[1].burn_time = 600
    /\ fnArg.stages[2].burn_time = 600
    /\ fnArg.stages[1].thrust_curve = (0 :> 1000)
    /\ fnArg.stages[2].thrust_curve = (0 :> 2000) @@ (600 :> 0)
    /\ fnArg.time = 900
    /\ fnRet[1] = 1000

\* the last stage that ends where stage i ends: i and the stages with burn
\* time 0 that follow it
RECURSIVE LastEndingWith(_, _)
LastEndingWith(stages, i) ==
    IF i < Len(stages) /\ stages[i + 1].burn_time = 0 THEN LastEndingWith(stages, i + 1)
    ELSE i

\* the formulas of staged get_mass for t >= 0: inside a stage, after all
\* stages, never increasing, and constant for a projectile without power
StagedMassFormulas ==
    LET st == fnArg.stages
        t == fnArg.time
    IN IF fnArg.projectile_type # "rocket" THEN fnRet[1] = fnArg.mass
       ELSE /\ \A i \in 1..Len(st) :
                 StageActive(st, i, t) =>
                    fnRet[1] = fnArg.mass - LossThrough(st, i - 1)
                               - MulDiv(st[i].mass_loss, t - StageStart(st, i), st[i].burn_time)
            /\ t >= StageStart(st, Len(st) + 1) => fnRet[1] = fnArg.mass - LossThrough(st, Len(st))
            /\ \A u \in QueryTimes :
                 0 <= u /\ u <= t =>
                    get_mass_b4(fnArg.projectile_type, fnArg.mass, fnArg.mass, st, u) >= fnRet[1]

(* C25, as stated: staged get_mass follows the formulas above, and mass is
   continuous at every stage boundary: at the end of a burning stage i it is
   initialMass minus the massLoss of the stages 1 .. i. *)
C25_MassContinuousAtEveryBoundary ==
    fn = "get_mass_staged" /\ fnArg.time >= 0 =>
        /\ StagedMassFormulas
        /\ fnArg.projectile_type = "rocket" =>
             \A i \in 1..Len(fnArg.stages) :
                fnArg.stages[i].burn_time > 0 /\ fnArg.time = StageStart(fnArg.stages, i + 1)
                => fnRet[1] = fnArg.mass - LossThrough(fnArg.stages, i)

(* C25, amended: staged get_mass follows the formulas above; at the end of a
   burning stage i the mass is initialMass minus the massLoss of the stages
   1 .. k, where k is the last stage that ends there: the massLoss of the
   stages with burn time 0 that follow stage i is subtracted at once, and the
   mass is continuous at the boundary only when there is none.  For t < 0 no
   stage is active and the mass is the one after all stages. *)
C25_MassDropsAtZeroBurnStages ==
    /\ fn = "get_mass_staged" /\ fnArg.time >= 0 =>
        /\ StagedMassFormulas
        /\ fnArg.projectile_type = "rocket" =>
             \A i \in 1..Len(fnArg.stages) :
                fnArg.stages[i].burn_time > 0 /\ fnArg.time = StageStart(fnArg.stages, i + 1)
                => fnRet[1] = fnArg.mass
                              - LossThrough(fnArg.stages, LastEndingWith(fnArg.stages, i))
    /\ fn = "get_mass_staged" /\ fnArg.time < 0 =>
        fnRet[1] = IF fnArg.projectile_type # "rocket" THEN fnArg.mass
                   ELSE fnArg.mass - LossThrough(fnArg.stages, Len(fnArg.stages))

\* the end of a burning stage that a stage with burn time 0 and a massLoss follows
C25_Witness ==
    /\ fn = "get_mass_staged"
    /\ fnArg.projectile_type = "rocket"
    /\ Len(fnArg.stages) = 2
    /\ fnArg.stages[1].burn_time = 600 /\ fnArg.stages[1].mass_loss = 1000000
    /\ fnArg.stages[2].burn_time = 0 /\ fnArg.stages[2].mass_loss = 1000000
    /\ fnArg.time = 600
    /\ fnRet[1] = fnArg.mass - 2000000

\* the ISA row at index i as (temperature, pressure)
IsaAnchor(i) == <<ISA_TABLE[i][2], ISA_TABLE[i][3]>>

\* C9: isa_interp is clamped at both ends: the 0 m anchor below 0 m, the
\* 10000 m anchor at or above 10000 m, the linear interpolation of the two
\* bracketing rows in between, an anchor's own values at an anchor altitude.
C9_IsaClampedBothEnds ==
    fn = "isa_interp" =>
    LET alt == fnArg.alt IN
    /\ alt < 0 => fnRet = IsaAnchor(1)
    /\ alt >= 10000 => fnRet = IsaAnchor(Len(ISA_TABLE))
    /\ \A i \in 1..Len(ISA_TABLE) : alt = ISA_TABLE[i][1] => fnRet = IsaAnchor(i)
    /\ \A i \in 1..(Len(ISA_TABLE) - 1) :
          (ISA_TABLE[i][1] <= alt /\ alt < ISA_TABLE[i+1][1]) =>
          LET f == alt - ISA_TABLE[i][1]
              d == ISA_TABLE[i+1][1] - ISA_TABLE[i][1]
          IN fnRet = <<ISA_TABLE[i][2] + ((f * (ISA_TABLE[i+1][2] - ISA_TABLE[i][2])) \div d),
                       ISA_TABLE[i][3] + ((f * (ISA_TABLE[i+1][3] - ISA_TABLE[i][3])) \div d)>>

----------------------------------------------------------------------------
(* Specification of the calculator: the inputs are drawn at the start; the
   user changes the widgets that _calculate_trajectory reads besides its
   arguments, and calls it.  The Ultimate loop reads no widget, so a change
   made while it runs acts as one made after it returns. *)

MaxCalls == 2
MaxChanges == 2

Inputs(body, drag_model, velocity, angle, atmosphere, wind_speed, wind_angle, coriolis, latitude) ==
    [mass |-> body.mass, diameter |-> body.diameter, drag_model |-> drag_model,
     velocity |-> velocity, angle |-> angle,
     altitude |-> atmosphere.altitude, temperature |-> atmosphere.temperature,
     pressure |-> atmosphere.pressure, humidity |-> atmosphere.humidity,
     wind_speed |-> wind_speed, wind_angle |-> wind_angle,
     coriolis |-> coriolis, latitude |-> latitude]

InputSets ==
    {Inputs(Shell, m, 10 * MPS, a, SeaLevel, 0, 0, FALSE, 45) :
        m \in {"G7", "Custom"}, a \in {0, 45}}

\* validate_inputs: the checks made before a calculation starts
validate_inputs ==
    /\ inputs.mass > 0
    /\ inputs.diameter > 0
    /\ inputs.velocity > 0
    /\ ~(type_combo = "rocket" /\ burn_time_input < 0)

Init ==
    /\ fn = "none"
    /\ fnArg = <<>>
    /\ fnRet = <<>>
    /\ InitWidgets
    /\ InitEngine
    /\ InitThreads
    /\ inputs \in InputSets
    /\ edition = "ultimate"

UserChange ==
    /\ pc # "loop"
    /\ changes < MaxChanges
    /\ changes' = changes + 1
    /\ UNCHANGED <<fnVars, engineVars, threadVars>>

\* update_projectile_type: the items of the drag model combo box for a type
DragModelItems(type) ==
    IF type = "bullet" THEN <<"G1", "G7", "Custom">>
    ELSE IF type = "rocket" THEN <<"rocket", "Custom">>
    ELSE <<"mortar", "Custom">>

\* the user picks another projectile type; update_projectile_type refills the
\* drag model combo box, whose current item becomes the first one
SetTypeCombo ==
    /\ UserChange
    /\ \E t \in {"bullet", "rocket", "mortar"} \ {type_combo} :
          /\ type_combo' = t
          /\ inputs' = [inputs EXCEPT !.drag_model = DragModelItems(t)[1]]
    /\ UNCHANGED <<thrust_input, burn_time_input, custom_drag_curve>>

\* the user picks another item of the drag model combo box
SetDragModel ==
    /\ UserChange
    /\ \E i \in DOMAIN DragModelItems(type_combo) :
          /\ DragModelItems(type_combo)[i] # inputs.drag_model
          /\ inputs' = [inputs EXCEPT !.drag_model = DragModelItems(type_combo)[i]]
    /\ UNCHANGED <<type_combo, thrust_input, burn_time_input, custom_drag_curve>>

\* the user edits the burn time (0 .. 10 s)
SetBurnTime ==
    /\ UserChange
    /\ \E b \in {0, 1000} \ {burn_time_input} : burn_time_input' = b
    /\ UNCHANGED <<type_combo, thrust_input, custom_drag_curve, inputs>>

\* the user edits the thrust (0 .. 10000 N)
SetThrust ==
    /\ UserChange
    /\ \E f \in {500, 1000} \ {thrust_input} : thrust_input' = f
    /\ UNCHANGED <<type_combo, burn_time_input, custom_drag_curve, inputs>>

\* load_custom_drag_curve: a CSV with at least one point replaces the curve
\* and the drag model combo box is set to Custom
LoadCustomDragCurve ==
    /\ UserChange
    /\ custom_drag_curve' = ZeroDragCurve
    /\ custom_drag_curve' # custom_drag_curve
    /\ inputs' = [inputs EXCEPT !.drag_model = "Custom"]
    /\ UNCHANGED <<type_combo, thrust_input, burn_time_input>>

\* calculate_trajectory: the inputs are validated and become the arguments
\* of _calculate_trajectory(**params)
Call ==
    /\ pc # "loop"
    /\ validate_inputs
    /\ Len(calls) + (IF pc = "raised" THEN 1 ELSE 0) < MaxCalls
    /\ edition = "ultimate"
    /\ BeginUltimate(inputs)
    /\ UNCHANGED <<fnVars, threadVars, widgetVars, edition, calls>>

Next ==
    \/ SetTypeCombo
    \/ SetDragModel
    \/ SetBurnTime
    \/ SetThrust
    \/ LoadCustomDragCurve
    \/ Call
    \/ StepUltimate
    \/ Return

Spec == Init /\ [][Next]_vars

----------------------------------------------------------------------------
(* Scenario A: a 9.5 g, 7.82 mm bullet, G7, 830 m/s, sea-level standard
   atmosphere, no wind, launched at 0 and at 45 degrees. *)

ScenarioAngles == {0, 45}

ScenarioInputSets ==
    {Inputs(Bullet, "G7", 830 * MPS, a, SeaLevel, 0, 0, FALSE, 45) : a \in ScenarioAngles}

InitScenario ==
    /\ fn = "none"
    /\ fnArg = <<>>
    /\ fnRet = <<>>
    /\ InitWidgets
    /\ InitEngine
    /\ InitThreads
    /\ inputs \in ScenarioInputSets
    /\ edition = "ultimate"

\* the user sets angle_input to the other launch angle
SetAngle ==
    /\ UserChange
    /\ \E a \in ScenarioAngles \ {inputs.angle} : inputs' = [inputs EXCEPT !.angle = a]
    /\ UNCHANGED <<type_combo, thrust_input, burn_time_input, custom_drag_curve>>

NextScenario ==
    \/ SetAngle
    \/ Call
    \/ StepUltimate
    \/ Return

SpecScenario == InitScenario /\ [][NextScenario]_vars

(* C18: with the same projectile, atmosphere and muzzle velocity of 830 m/s
   and no wind, the maximum height of the 0-degree trajectory is strictly
   lower than the maximum height of the 45-degree trajectory. *)
C18_FlatShotStaysLower ==
    \A i, j \in 1..Len(calls) :
        calls[i].params.angle = 0 /\ calls[j].params.angle = 45
        => \E k \in 1..Len(calls[j].trajectory) :
             \A m \in 1..Len(calls[i].trajectory) :
                calls[i].trajectory[m][2] < calls[j].trajectory[k][2]

C18_Witness ==
    /\ Len(calls) = 2
    /\ calls[1].params.angle = 0
    /\ calls[2].params.angle = 45
    /\ calls[1].trajectory # <<>>
    /\ Len(calls[2].trajectory) > 300

----------------------------------------------------------------------------
(* Claims about the calculator (Ultimate Edition) *)

\* C7: the engine is total: for every input accepted by validate_inputs,
\* a rocket with burn time 0 included, _calculate_trajectory never raises.
C7_NeverRaises == pc # "raised"

\* C8: two calls of _calculate_trajectory with identical arguments return
\* identical sample sequences, whatever the user did to the type, thrust and
\* burn-time widgets or to the custom drag curve between the calls.
C8_SameArgumentsSameTrajectory ==
    \A i \in 1..Len(calls) : \A j \in 1..Len(calls) :
        calls[i].params = calls[j].params => calls[i].trajectory = calls[j].trajectory

\* update_results: max(p[1] for p in trajectory), trajectory[-1][0] and
\* trajectory[-1][2] of a trajectory that is not empty
max_height(tr) == CHOOSE h \in {tr[k][2] : k \in DOMAIN tr} : \A k \in DOMAIN tr : tr[k][2] <= h
distance(tr) == tr[Len(tr)][1]
flight_time(tr) == tr[Len(tr)][3]

\* the call that has just returned was a level shot of a projectile without
\* a motor, in still air, with the Coriolis term off
LevelShotReturned ==
    /\ pc = "done"
    /\ params.angle = 0
    /\ projectile.projectile_type # "rocket"
    /\ environment.wind_speed = 0
    /\ ~environment.coriolis

\* C29: a launch at exactly 0 degrees of a non-powered projectile, without
\* wind and with Coriolis disabled, returns exactly one sample, the launch
\* sample (x = 0, y = 0, t = 0, vx = v0, vy = 0), and update_results reports
\* impact distance, flight time and maximum height 0.
C29_LevelShotHasOneSample ==
    LevelShotReturned =>
        /\ trajectory = <<<<0, 0, 0, params.velocity, 0, params.velocity>>>>
        /\ calls[Len(calls)].trajectory = trajectory
        /\ distance(trajectory) = 0
        /\ flight_time(trajectory) = 0
        /\ max_height(trajectory) = 0

\* a level shot has returned, and the loop had gone below the launch height
C29_Witness == LevelShotReturned /\ state[2] < 0 /\ time > 0

----------------------------------------------------------------------------
(* Beta 5: _calculate_trajectory is an Euler loop with a fixed step, run by
   calculate_trajectory without validation *)

DT_BETA5 == 20   \* dt = 0.02

\* Projectile.drag_coefficient (Beta 5): G1, G7, a loaded custom curve, else 0.3
drag_coefficient_b5(drag_model, custom_drag_curve_, velocity) ==
    IF drag_model = "G1" THEN G1(velocity)
    ELSE IF drag_model = "G7" THEN G7(velocity)
    ELSE IF drag_model = "Custom" /\ custom_drag_curve_ # <<>>
         THEN custom(velocity, custom_drag_curve_)
    ELSE 300

\* Projectile(mass, diameter, drag_model, velocity, "bullet") (Beta 5)
Projectile_b5(mass, diameter, drag_model, velocity, projectile_type) ==
    [mass |-> mass, diameter |-> diameter, drag_model |-> drag_model,
     velocity |-> velocity, area |-> Area(diameter),
     projectile_type |-> projectile_type, custom_drag_curve |-> <<>>]

\* Environment() (Beta 5): the defaults, air_density = 1.225
Environment_b5 ==
    [altitude |-> 0, temperature |-> 150, pressure |-> 101325, humidity |-> 50,
     wind_speed |-> 0, wind_angle |-> 0, coriolis |-> FALSE, latitude |-> 45,
     dynamic_air |-> FALSE, air_density |-> 1225]

\* the lines of _calculate_trajectory before the loop (Beta 5)
BeginBeta5(p) ==
    /\ params' = p
    /\ projectile' = Projectile_b5(p.mass, p.diameter, p.drag_model, p.velocity, "bullet")
    /\ environment' = Environment_b5
    /\ state' = <<0, 0, MulDiv(p.velocity, cos(p.angle), TRIG),
                        MulDiv(p.velocity, sin(p.angle), TRIG)>>
    /\ trajectory' = <<>>
    /\ time' = 0
    /\ pc' = "loop"

\* vx += ax * dt; vy += ay * dt; x += vx * dt; y += vy * dt; t += dt, and the
\* sample appended after the update, with the speed v of before it
EulerUpdateBeta5(v, vx, vy) ==
    /\ state' = <<state[1] + MulDiv(vx, DT_BETA5, (MPS \div MM) * MS),
                  state[2] + MulDiv(vy, DT_BETA5, (MPS \div MM) * MS), vx, vy>>
    /\ time' = time + DT_BETA5
    /\ trajectory' = Append(trajectory,
            <<state'[1], state'[2], time', state'[3], state'[4], v>>)

EulerBeta5(v, a) ==
    EulerUpdateBeta5(v, state[3] + MulDiv(a[1], DT_BETA5, MS),
                        state[4] + MulDiv(a[2], DT_BETA5, MS))

\* one iteration of the while loop (Beta 5); Fd * vx / (mass * v) raises
\* ZeroDivisionError at v = 0
StepBeta5Speed(v) ==
    IF v = 0
    THEN /\ pc' = "raised"
         /\ UNCHANGED <<state, time, trajectory>>
    ELSE /\ pc' = "loop"
         /\ EulerBeta5(v, DragAcceleration(state[3], state[4],
                DragPerSpeed(v,
                    drag_coefficient_b5(projectile.drag_model,
                                        projectile.custom_drag_curve, v),
                    environment.air_density, projectile.area, projectile.mass)))

StepBeta5 ==
    /\ pc = "loop"
    /\ edition = "beta5"
    /\ LoopCondBeta5
    /\ StepBeta5Speed(hypot(state[3], state[4]))
    /\ UNCHANGED <<fnVars, threadVars, widgetVars, edition, params, projectile, environment, calls>>

Beta5InputSets ==
    {Inputs(Bullet, m, v * MPS, a, SeaLevel, 0, 0, FALSE, 45) :
        m \in {"G7", "Custom"}, v \in {10, 30}, a \in {0, 45, 90}}

InitBeta5 ==
    /\ fn = "none"
    /\ fnArg = <<>>
    /\ fnRet = <<>>
    /\ InitWidgets
    /\ InitEngine
    /\ InitThreads
    /\ inputs \in Beta5InputSets
    /\ edition = "beta5"

\* calculate_trajectory (Beta 5): no validation, the call runs at once
CallBeta5 ==
    /\ pc # "loop"
    /\ Len(calls) + (IF pc = "raised" THEN 1 ELSE 0) < MaxCalls
    /\ edition = "beta5"
    /\ BeginBeta5(inputs)
    /\ UNCHANGED <<fnVars, threadVars, widgetVars, edition, calls>>

\* run_batch (Beta 5) sweeping the muzzle velocity from 0: the first call of
\* BatchCalculationThread.run; the sweep values are not validated
BatchCallBeta5 ==
    /\ pc # "loop"
    /\ Len(calls) + (IF pc = "raised" THEN 1 ELSE 0) < MaxCalls
    /\ edition = "beta5"
    /\ BeginBeta5([inputs EXCEPT !.velocity = 0])
    /\ UNCHANGED <<fnVars, threadVars, widgetVars, edition, calls>>

NextBeta5 ==
    \/ BatchCallBeta5
    \/ CallBeta5
    \/ StepBeta5
    \/ Return

SpecBeta5 == InitBeta5 /\ [][NextBeta5]_vars

----------------------------------------------------------------------------
(* Claims about the Euler loop of Beta 5 *)

\* C1: the first sample of the returned trajectory is the launch state:
\* x = 0, y = 0, t = 0, vx = v0*cos(angle), vy = v0*sin(angle), speed = v0
\* (to the thousandth, the model's square root being rounded); the
\* trajectory is never empty.
C1_FirstSampleIsLaunchState ==
    pc = "done" =>
        /\ trajectory # <<>>
        /\ trajectory[1][1] = 0
        /\ trajectory[1][2] = 0
        /\ trajectory[1][3] = 0
        /\ trajectory[1][4] = MulDiv(params.velocity, cos(params.angle), TRIG)
        /\ trajectory[1][5] = MulDiv(params.velocity, sin(params.angle), TRIG)
        /\ Abs(trajectory[1][6] - params.velocity) <= params.velocity \div 1000

(* C23: when the relative velocity has magnitude 0 in an evaluation of the
   acceleration, the drag acceleration is (0, 0) and no division by zero
   occurs: the integration continues.  Beta 5 has no wind, so the relative
   velocity is the velocity of the state. *)
C23_NoDivisionByZeroAtRest ==
    pc = "raised" => hypot(state[3], state[4]) > 0

(* C19: each iteration appends the state it starts from and then advances
   it, so every sample of the trajectory satisfies the loop condition
   (y >= 0 and t < 120), its speed field is hypot(vx, vy) of that same
   sample, and the state that ends the loop is not in the output. *)
C19_SamplesSatisfyLoopCondition ==
    \A k \in 1..Len(trajectory) :
        /\ trajectory[k][2] >= 0
        /\ trajectory[k][3] < MAX_FLIGHT_TIME
        /\ trajectory[k][6] = hypot(trajectory[k][4], trajectory[k][5])

----------------------------------------------------------------------------
(* hopev3: calculate_trajectory is an Euler loop on the UI thread that takes
   the atmosphere as arguments and computes the air density inside the loop.
   Units as above; temp in 0.01 K, altitude and elevation_diff in mm, the air
   density in mg/m^3, Mach numbers in 1e-4, drag coefficients in 1e-4. *)

\* calculate_air_density(temp, pressure, humidity, altitude) for temp = 288.15,
\* pressure = 101325, humidity = 50: max(0.1, rho) at every 100 m, the value
\* in between interpolated (the formula is linear to 1 mg/m^3 over 100 m)
AirDensityAnchorsHope ==
    <<<<-100000, 1218621>>, <<0, 1221116>>, <<100000, 1223615>>, <<200000, 1226119>>,
      <<300000, 1228628>>, <<400000, 1231141>>, <<500000, 1233661>>>>

calculate_air_density_hope(temp, pressure, humidity, altitude) ==
    LET i == CHOOSE j \in 1..(Len(AirDensityAnchorsHope) - 1) :
                /\ AirDensityAnchorsHope[j][1] <= altitude \/ j = 1
                /\ altitude < AirDensityAnchorsHope[j + 1][1]
                   \/ j = Len(AirDensityAnchorsHope) - 1
    IN  Max(100000, linear_interpolate(altitude,
                AirDensityAnchorsHope[i][1], AirDensityAnchorsHope[i + 1][1],
                AirDensityAnchorsHope[i][2], AirDensityAnchorsHope[i + 1][2]))

\* calculate_sound_speed: 20.05 * math.sqrt(temp), in mm/s
calculate_sound_speed(temp) == MulDiv(2005, Isqrt(temp * 10000), 100)

\* the tables of get_drag_coefficient
DragTablesHope(model) ==
    IF model = "M2"
    THEN <<<<0, 5500>>, <<8000, 5300>>, <<10000, 4900>>, <<12000, 4700>>, <<20000, 4500>>>>
    ELSE IF model = "M3"
    THEN <<<<0, 4500>>, <<8000, 4300>>, <<10000, 3900>>, <<12000, 3700>>, <<20000, 3500>>>>
    ELSE IF model = "G1"
    THEN <<<<0, 2600>>, <<8000, 2500>>, <<10000, 2300>>, <<12000, 2900>>, <<20000, 2400>>,
           <<30000, 2400>>>>
    ELSE IF model = "G7"
    THEN <<<<0, 1200>>, <<8000, 1200>>, <<10000, 1200>>, <<12000, 1800>>, <<20000, 1800>>,
           <<30000, 1800>>>>
    ELSE <<<<0, 6500>>, <<8000, 6300>>, <<10000, 5900>>, <<12000, 5700>>, <<20000, 5500>>>>

\* get_drag_coefficient: the first interval that holds mach, else an end value
get_drag_coefficient_hope(model, mach) ==
    LET table == DragTablesHope(model)
        hits == {i \in 1..(Len(table) - 1) : table[i][1] <= mach /\ mach <= table[i + 1][1]}
    IN  IF hits # {}
        THEN LET i == SetMin(hits)
             IN  linear_interpolate(mach, table[i][1], table[i + 1][1],
                                    table[i][2], table[i + 1][2])
        ELSE IF mach > table[Len(table)][1] THEN table[Len(table)][2]
        ELSE table[1][2]

\* time_step = 0.05 if drag_model.startswith('M') else 0.01
time_step_hope(drag_model) == IF drag_model \in {"M1", "M2", "M3"} THEN 50 ELSE 10

\* the lines of calculate_trajectory before the loop: the arguments are kept
\* as locals, rho is not bound yet
BeginHope(p) ==
    /\ params' = p
    /\ projectile' = [mass |-> p.mass, diameter |-> p.diameter, length |-> p.length,
                      drag_model |-> p.drag_model, area |-> Area(p.diameter)]
    /\ environment' = [temp |-> p.temp, pressure |-> p.pressure, humidity |-> p.humidity,
                       altitude |-> p.altitude,
                       wind_x |-> MulDiv(p.wind_speed, cos(p.wind_dir), TRIG),
                       wind_y |-> MulDiv(p.wind_speed, sin(p.wind_dir), TRIG),
                       latitude |-> 45]
    /\ state' = <<0, 0, MulDiv(p.velocity, cos(p.angle), TRIG),
                        MulDiv(p.velocity, sin(p.angle), TRIG)>>
    /\ trajectory' = <<>>
    /\ time' = 0
    /\ pc' = "loop"

\* rho of this iteration: from the current altitude where the box is checked
RhoHope ==
    IF params.density_check
    THEN calculate_air_density_hope(environment.temp, environment.pressure,
                                    environment.humidity, environment.altitude + state[2])
    ELSE 1225000

\* drag_force / (mass * v_rel), in 1e-7 / s
DragPerSpeedHope(v_rel, cd, rho, area, m) ==
    MulDiv(5 * MulDiv(MulDiv(rho, cd, 10000), area, m), v_rel, 10000000)

\* ax, ay of one iteration for the relative velocity and the Mach number
AccelerationHope(v_rel_x, v_rel_y, v_rel, mach, rho) ==
    LET a == IF v_rel > 0
             THEN DragAcceleration(v_rel_x, v_rel_y,
                    DragPerSpeedHope(v_rel,
                        get_drag_coefficient_hope(projectile.drag_model, mach),
                        rho, projectile.area, projectile.mass))
             ELSE <<0, -GRAVITY>>
    IN  IF params.coriolis_check
        THEN CoriolisBy(state[3], state[4], a,
                MulDiv(2 * EARTH_ROTATION_RATE, sin(environment.latitude), TRIG))
        ELSE a

\* vx += ax * time_step ... time += time_step, and the appended tuple
\* (time, x, y, speed, mach, drift, time_step)
EulerUpdateHope(vx, vy, mach, time_step) ==
    /\ state' = <<state[1] + MulDiv(vx, time_step, (MPS \div MM) * MS),
                  state[2] + MulDiv(vy, time_step, (MPS \div MM) * MS), vx, vy>>
    /\ time' = time + time_step
    /\ trajectory' = Append(trajectory,
            <<time', state'[1], state'[2], hypot(vx, vy), mach,
              MulDiv(MulDiv(params.wind_speed, time', MS) \div (MPS \div MM),
                     sin(params.wind_dir), TRIG),
              time_step>>)

EulerHope(a, mach, time_step) ==
    EulerUpdateHope(state[3] + MulDiv(a[1], time_step, MS),
                    state[4] + MulDiv(a[2], time_step, MS), mach, time_step)

StepHopeWith(v_rel_x, v_rel_y, v_rel, mach, rho) ==
    /\ environment' = [a \in DOMAIN environment \cup {"air_density"} |->
                          IF a = "air_density" THEN rho ELSE environment[a]]
    /\ EulerHope(AccelerationHope(v_rel_x, v_rel_y, v_rel, mach, rho), mach,
                 time_step_hope(projectile.drag_model))

\* one iteration of the while loop; the air density the iteration used is
\* kept in environment.air_density
StepHope ==
    /\ pc = "loop"
    /\ edition = "hopev3"
    /\ LoopCondHope
    /\ LET v_rel == hypot(state[3] - environment.wind_x, state[4] - environment.wind_y)
       IN  StepHopeWith(state[3] - environment.wind_x, state[4] - environment.wind_y, v_rel,
                        MulDiv(v_rel, 100, calculate_sound_speed(environment.temp)),
                        RhoHope)
    /\ pc' = "loop"
    /\ UNCHANGED <<fnVars, threadVars, widgetVars, edition, params, projectile, calls>>

\* the arguments calculate_solution passes: the mortar bomb of the defaults
\* from 100 m, in the standard atmosphere
HopeInputSets ==
    {[velocity |-> v * MPS, angle |-> a, mass |-> MortarBomb.mass,
      diameter |-> MortarBomb.diameter, length |-> 400000, drag_model |-> m,
      wind_speed |-> 0, wind_dir |-> 0, elevation_diff |-> 0,
      temp |-> 28815, pressure |-> 101325, humidity |-> 50, altitude |-> 100000,
      density_check |-> d, coriolis_check |-> TRUE] :
        v \in {20, 30}, a \in {45, 90}, m \in {"M1", "G7"}, d \in BOOLEAN}

InitHope ==
    /\ fn = "none"
    /\ fnArg = <<>>
    /\ fnRet = <<>>
    /\ InitWidgets
    /\ InitEngine
    /\ InitThreads
    /\ inputs \in HopeInputSets
    /\ edition = "hopev3"

\* calculate_solution calls calculate_trajectory with the widgets' values
CallHope ==
    /\ pc # "loop"
    /\ Len(calls) < MaxCalls
    /\ edition = "hopev3"
    /\ BeginHope(inputs)
    /\ UNCHANGED <<fnVars, threadVars, widgetVars, edition, calls>>

NextHope ==
    \/ CallHope
    \/ StepHope
    \/ Return

SpecHope == InitHope /\ [][NextHope]_vars

\* C27: during one call the Projectile and the Environment stay as they are:
\* from one iteration of the loop to the next the projectile's data (mass,
\* diameter, area, drag model, thrust) and the environment's data (wind,
\* latitude and the air density the derivative uses) have the same values;
\* only the state, the time and the output list change.
C27_ProjectileAndEnvironmentUnchanged ==
    [][(pc = "loop" /\ pc' = "loop" /\ "air_density" \in DOMAIN environment)
        => projectile' = projectile /\ environment' = environment]_vars

----------------------------------------------------------------------------
(* Fast flights (Ultimate Edition): muzzle velocities above 1000 m/s, where
   the adaptive step is shorter than max_time_step *)

FastInputSets ==
    {Inputs(Bullet, "G7", v * MPS, a, SeaLevel, 0, 0, FALSE, 45) :
        v \in {1500, 2000}, a \in {15, 45}}

InitFast ==
    /\ fn = "none"
    /\ fnArg = <<>>
    /\ fnRet = <<>>
    /\ InitWidgets
    /\ InitEngine
    /\ InitThreads
    /\ inputs \in FastInputSets
    /\ edition = "ultimate"

NextFast ==
    \/ Call
    \/ StepUltimate
    \/ Return

SpecFast == InitFast /\ [][NextFast]_vars

\* the differences t[i+1] - t[i] of the sample times of a trajectory
Gaps(tr) == {tr[k + 1][3] - tr[k][3] : k \in 1..(Len(tr) - 1)}

\* C28: in a returned trajectory the sample times start at 0 and increase
\* strictly, every difference between consecutive sample times lies between
\* min_time_step (0.001 s) and max_time_step (0.1 s), and the trajectory has
\* at most 120 / 0.001 samples.
C28_SampleTimesIncrease ==
    \A i \in 1..Len(calls) :
        LET tr == calls[i].trajectory
        IN  /\ tr # <<>>
            /\ tr[1][3] = 0
            /\ \A g \in Gaps(tr) : MIN_TIME_STEP <= g /\ g <= MAX_TIME_STEP
            /\ Len(tr) <= MAX_FLIGHT_TIME \div MIN_TIME_STEP

\* a returned trajectory whose steps were shortened while the projectile was
\* faster than 1000 m/s and reached max_time_step later
C28_Witness ==
    \E i \in 1..Len(calls) :
        /\ \E g \in Gaps(calls[i].trajectory) : g < MAX_TIME_STEP
        /\ MAX_TIME_STEP \in Gaps(calls[i].trajectory)

----------------------------------------------------------------------------
(* Flights without drag (Ultimate Edition): the custom drag curve with
   Cd = 0 is loaded, then the trajectory is calculated once *)

NoDragInputSets ==
    {Inputs(Bullet, "Custom", v * MPS, a, SeaLevel, 0, 0, FALSE, 45) :
        v \in {10, 50, 200, 1000}, a \in {0, 15, 45, 75, 90}}

InitNoDrag ==
    /\ fn = "none"
    /\ fnArg = <<>>
    /\ fnRet = <<>>
    /\ InitWidgets
    /\ InitEngine
    /\ InitThreads
    /\ inputs \in NoDragInputSets
    /\ edition = "ultimate"

CallNoDrag ==
    /\ calls = <<>>
    /\ custom_drag_curve = ZeroDragCurve
    /\ Call

NextNoDrag ==
    \/ LoadCustomDragCurve
    \/ CallNoDrag
    \/ StepUltimate
    \/ Return

SpecNoDrag == InitNoDrag /\ [][NextNoDrag]_vars

\* v0^2 * sin(2 * angle) / g, in mm
ClosedFormRange(v0, angle) ==
    MulDiv(MulDiv(v0 \div (MPS \div MM), v0, GRAVITY), sin(2 * angle), TRIG)

\* 2 * v0 * sin(angle) / g, in ms
ClosedFormFlightTime(v0, angle) ==
    MulDiv(2 * MulDiv(v0, sin(angle), TRIG), MS, GRAVITY)

\* a call without drag, wind, thrust and Coriolis has returned
NoDragReturned ==
    /\ pc = "done"
    /\ projectile.drag_model = "Custom"
    /\ projectile.custom_drag_curve = ZeroDragCurve
    /\ projectile.projectile_type # "rocket"
    /\ environment.wind_speed = 0
    /\ ~environment.coriolis

LastX == trajectory[Len(trajectory)][1]

\* what the model's rounding of sines and of positions may add: 0.05 %, 1 cm
RangeTolerance(range) == (range \div 2000) + 10

\* C10, as stated: without drag the x of the last sample is within 0.5 % of
\* the closed-form range v0^2 * sin(2 * angle) / g.
C10_RangeWithinHalfPercent ==
    NoDragReturned =>
        Abs(LastX - ClosedFormRange(params.velocity, params.angle))
            <= ClosedFormRange(params.velocity, params.angle) \div 200

C10_ShortByAtMostOneStep(range, vx0) ==
    /\ LastX <= range + RangeTolerance(range)
    /\ range - LastX <= MulDiv(vx0, MAX_TIME_STEP, (MPS \div MM) * MS) + RangeTolerance(range)

\* C10, amended: without drag, when the closed-form flight time is below the
\* 120 s cap, the x of the last sample is not beyond the closed-form range and
\* short of it by at most the horizontal travel of one time step of 0.1 s;
\* it is within 0.5 % of the range when that flight time is 25 s or more.
C10_RangeShortByAtMostOneStep ==
    NoDragReturned /\ ClosedFormFlightTime(params.velocity, params.angle) < MAX_FLIGHT_TIME =>
        /\ C10_ShortByAtMostOneStep(ClosedFormRange(params.velocity, params.angle),
                                    trajectory[1][4])
        /\ ClosedFormFlightTime(params.velocity, params.angle) >= 25000 =>
                C10_RangeWithinHalfPercent

\* a flight without drag has ended short of the closed-form range by more than 0.5 %
C10_Witness ==
    /\ NoDragReturned
    /\ ClosedFormFlightTime(params.velocity, params.angle) < MAX_FLIGHT_TIME
    /\ Len(trajectory) > 1
    /\ ~C10_RangeWithinHalfPercent

----------------------------------------------------------------------------
(* run_batch (Ultimate Edition): the muzzle velocity is swept from the start
   value to the end value; each value replaces params["velocity"] and
   _calculate_trajectory is called with them by BatchCalculationThread, one run
   after the other, without validate_inputs.  The start and end widgets take
   -10000 .. 10000.

   The flights are long, so this specification holds the list of samples as
   its length and its last element: [len |-> n, last |-> sample]. *)

\* the values of the sweep: start, start + step, .. (m/s)
BatchSweep == <<10 * MPS, 10000 * MPS>>

EmptyList == [len |-> 0, last |-> <<>>]

\* trajectory.append(sample)
AppendKept(list, sample) == [len |-> list.len + 1, last |-> sample]

BatchInputSets ==
    {Inputs(Bullet, "Custom", 800 * MPS, a, SeaLevel, 0, 0, FALSE, 45) : a \in {45, 90}}

InitBatch ==
    /\ fn = "none"
    /\ fnArg = <<>>
    /\ fnRet = <<>>
    /\ InitWidgets
    /\ InitEngine
    /\ InitThreads
    /\ inputs \in BatchInputSets
    /\ edition = "ultimate"

\* the next run of BatchCalculationThread.run
CallBatch ==
    /\ pc # "loop"
    /\ custom_drag_curve = ZeroDragCurve
    /\ Len(calls) < Len(BatchSweep)
    /\ BeginUltimateWith([inputs EXCEPT !.velocity = BatchSweep[Len(calls) + 1]], EmptyList)
    /\ UNCHANGED <<fnVars, threadVars, widgetVars, edition, calls>>

StepBatch == StepUltimateWith(AppendKept(trajectory, Sample))

NextBatch ==
    \/ LoadCustomDragCurve
    \/ CallBatch
    \/ StepBatch
    \/ Return

SpecBatch == InitBatch /\ [][NextBatch]_vars

\* max_steps = 10000, the step cap
STEP_CAP == 10000

(* C3: the returned trajectory has at most 10000 samples and its last sample
   has t <= 120 s. *)
C3_StepAndTimeCaps ==
    pc = "done" =>
        /\ trajectory.len <= STEP_CAP
        /\ trajectory.len > 0 => trajectory.last[3] <= MAX_FLIGHT_TIME

----------------------------------------------------------------------------
(* cal1 ("Advanced Ballistic Calculator", the last program of part_000):
   _calculate_trajectory is an Euler loop with a fixed step and the only
   condition y >= 0.  The loop has no cap, so its clock, its positions and
   its list grow without bound; the model follows them up to MaxClock,
   MaxPosition and MaxSamples.  Beyond them it keeps a position at the bound,
   the list as it is and the clock within one step of MaxClock: the loop
   reads none of them but the sign of y. *)

TIME_STEP_CAL1 == 100   \* time_step=0.1

MaxClock == 6000
MaxPosition == 50000
MaxSamples == 60

DRAG_MODELS ==
    [G1 |-> 519, G2 |-> 515, G5 |-> 485, G7 |-> 371, Custom |-> 470]

\* Projectile.__init__ (cal1)
Projectile_cal1(mass, diameter, drag_model, drag_coeff, velocity) ==
    [mass |-> mass, diameter |-> diameter, drag_model |-> drag_model,
     drag_coeff |-> IF drag_model = "Custom" THEN drag_coeff ELSE DRAG_MODELS[drag_model],
     velocity |-> velocity, area |-> Area(diameter)]

\* calculate_trajectory (cal1) up to the loop of _calculate_trajectory
BeginCal1(p) ==
    /\ params' = p
    /\ projectile' = Projectile_cal1(p.mass, p.diameter, p.drag_model, p.drag_coeff,
                                      p.velocity)
    /\ environment' = Environment(p.altitude, p.temperature, p.pressure, p.humidity,
                                  p.wind_speed, p.wind_angle, p.coriolis, p.latitude)
    /\ state' = <<0, 0, MulDiv(p.velocity, cos(p.angle), TRIG),
                        MulDiv(p.velocity, sin(p.angle), TRIG)>>
    /\ trajectory' = <<>>
    /\ time' = 0
    /\ pc' = "loop"

\* ax, ay before the Coriolis terms (cal1)
DragAndGravityCal1(v_rel_x, v_rel_y, v_rel) ==
    IF v_rel > 0
    THEN DragAcceleration(v_rel_x, v_rel_y,
            DragPerSpeed(v_rel, projectile.drag_coeff, environment.air_density,
                         projectile.area, projectile.mass))
    ELSE <<0, -GRAVITY>>

Bounded(position) == Max(-MaxPosition, Min(MaxPosition, position))

Clock(t) == IF t > MaxClock THEN t - 2 * TIME_STEP_CAL1 ELSE t

\* if y >= 0: trajectory.append((x, y, time, vx, vy, math.sqrt(vx**2 + vy**2)))
AppendCal1(x, y, t, vx, vy) ==
    IF y >= 0 /\ Len(trajectory) < MaxSamples
    THEN Append(trajectory, <<x, y, t, vx, vy, hypot(vx, vy)>>)
    ELSE trajectory

\* x += vx * time_step; y += vy * time_step; time += time_step
EulerUpdateCal1(vx, vy) ==
    /\ state' = <<Bounded(state[1] + MulDiv(vx, TIME_STEP_CAL1, (MPS \div MM) * MS)),
                  Bounded(state[2] + MulDiv(vy, TIME_STEP_CAL1, (MPS \div MM) * MS)),
                  vx, vy>>
    /\ time' = Clock(time + TIME_STEP_CAL1)
    /\ trajectory' = AppendCal1(state'[1], state'[2], time', vx, vy)

\* vx += ax * time_step; vy += ay * time_step
EulerCal1(a) ==
    EulerUpdateCal1(state[3] + MulDiv(a[1], TIME_STEP_CAL1, MS),
                    state[4] + MulDiv(a[2], TIME_STEP_CAL1, MS))

\* one iteration of the while loop (cal1)
StepCal1 ==
    /\ pc = "loop"
    /\ edition = "cal1"
    /\ LoopCondCal1
    /\ pc' = "loop"
    /\ EulerCal1(Coriolis(state[3], state[4], environment,
            DragAndGravityCal1(state[3] - wind_x, state[4] - wind_y,
                               hypot(state[3] - wind_x, state[4] - wind_y))))
    /\ UNCHANGED <<fnVars, threadVars, widgetVars, edition, params, projectile, environment, calls>>

\* a ball of 25 g and 100 mm
Ball == [mass |-> 25000, diameter |-> 100000]

Cal1InputSets ==
    {Inputs(Ball, m, 10 * MPS, a, SeaLevel, w, wa, FALSE, 45) @@ [drag_coeff |-> 470] :
        m \in {"G1", "Custom"}, a \in {45, 90}, w \in {0, 20 * MPS}, wa \in {0, 90}}

InitCal1 ==
    /\ fn = "none"
    /\ fnArg = <<>>
    /\ fnRet = <<>>
    /\ InitWidgets
    /\ InitEngine
    /\ InitThreads
    /\ inputs \in Cal1InputSets
    /\ edition = "cal1"

\* calculate_trajectory (cal1): no validation, the call runs at once
CallCal1 ==
    /\ pc # "loop"
    /\ Len(calls) < MaxCalls
    /\ edition = "cal1"
    /\ BeginCal1(inputs)
    /\ UNCHANGED <<fnVars, threadVars, widgetVars, edition, calls>>

NextCal1 ==
    \/ CallCal1
    \/ StepCal1
    \/ Return

\* a loop that can take its next iteration takes it, and a return that is
\* reached is taken
SpecCal1 ==
    InitCal1 /\ [][NextCal1]_vars /\ WF_vars(StepCal1) /\ WF_vars(Return)

\* C2: _calculate_trajectory always terminates and returns a finite
\* trajectory, whatever the input: a call that has entered its loop returns.
C2_CallReturns == (pc = "loop") ~> (pc = "done")

----------------------------------------------------------------------------
(* The application (Ultimate Edition): the UI thread handles the clicks and
   the queued signals, one at a time; CalculationThread and
   BatchCalculationThread run _calculate_trajectory on worker threads.
   _calculate_trajectory reads the widgets when it builds its Projectile and
   works on locals afterwards, so the calls of different threads are taken
   one after the other. *)

MaxRequests == 2

AppInputSets ==
    {Inputs(Shell, "G7", 3 * MPS, a, SeaLevel, 0, 0, FALSE, 45) : a \in {45}}

InitApp ==
    /\ fn = "none"
    /\ fnArg = <<>>
    /\ fnRet = <<>>
    /\ InitWidgets
    /\ InitEngine
    /\ InitThreads
    /\ inputs \in AppInputSets
    /\ edition = "ultimate"

\* the UI thread is inside a handler that has not returned (run_monte_carlo)
UiBusy == monte_carlo.pc # "idle"

\* mutant of Emit: the signal is lost
EmitLost(signal) == signals

\* pyqtSignal.emit from a worker thread: queued for the UI thread
Emit(signal) == Append(signals, signal)

\* previous_trajectories.append(self.trajectory) without the pop(0)
KeepEveryPrevious ==
    IF stored = <<>> THEN previous_trajectories ELSE Append(previous_trajectories, stored)

\* previous_trajectories.append(self.trajectory), the last 3 are kept
KeepPrevious ==
    IF stored = <<>> THEN previous_trajectories
    ELSE IF Len(previous_trajectories) = 3
    THEN Append(Tail(previous_trajectories), stored)
    ELSE Append(previous_trajectories, stored)

\* a calculate_trajectory that leaves the Calculate button enabled
CalculateButtonLeftEnabled ==
    /\ ~UiBusy
    /\ calculate_btn
    /\ validate_inputs
    /\ requests < MaxRequests
    /\ requests' = requests + 1
    /\ calculate_btn' = calculate_btn
    /\ previous_trajectories' = KeepPrevious
    /\ calc_thread' = [pc |-> "started", params |-> inputs]
    /\ emitted' = [emitted EXCEPT !.calc = <<>>]
    /\ UNCHANGED <<fnVars, widgetVars, engineVars, stored, batch_trajectories, batch_thread,
                   monte_carlo, thread, signals, notified>>

\* calculate_trajectory: a click on the enabled Calculate button with valid
\* inputs disables the button and starts a CalculationThread
CalculateWithin(max_requests) ==
    /\ ~UiBusy
    /\ calculate_btn
    /\ validate_inputs
    /\ requests < max_requests
    /\ requests' = requests + 1
    /\ calculate_btn' = FALSE
    /\ previous_trajectories' = KeepPrevious
    /\ calc_thread' = [pc |-> "started", params |-> inputs]
    /\ emitted' = [emitted EXCEPT !.calc = <<>>]
    /\ UNCHANGED <<fnVars, widgetVars, engineVars, stored, batch_trajectories, batch_thread,
                   monte_carlo, thread, signals, notified>>

Calculate == CalculateWithin(MaxRequests)

\* CalculationThread.run: self.calculator._calculate_trajectory is called
CalcRun ==
    /\ calc_thread.pc = "started"
    /\ thread = "none"
    /\ thread' = "calc"
    /\ calc_thread' = [calc_thread EXCEPT !.pc = "running"]
    /\ BeginUltimate(calc_thread.params)
    /\ UNCHANGED <<fnVars, widgetVars, edition, calls, calculate_btn, stored,
                   previous_trajectories, batch_trajectories, batch_thread, monte_carlo,
                   signals, emitted, notified, requests>>

\* CalculationThread.run: self.finished.emit(result)
CalcFinished ==
    /\ thread = "calc"
    /\ pc = "done"
    /\ thread' = "none"
    /\ calc_thread' = [calc_thread EXCEPT !.pc = "ended"]
    /\ signals' = Emit([signal |-> "finished", result |-> trajectory])
    /\ emitted' = [emitted EXCEPT !.calc = Append(@, "finished")]
    /\ UNCHANGED <<fnVars, widgetVars, engineVars, calculate_btn, stored,
                   previous_trajectories, batch_trajectories, batch_thread, monte_carlo,
                   notified, requests>>

\* CalculationThread.run: except Exception as e: self.error.emit(str(e))
CalcError ==
    /\ thread = "calc"
    /\ pc = "raised"
    /\ thread' = "none"
    /\ calc_thread' = [calc_thread EXCEPT !.pc = "ended"]
    /\ signals' = Emit([signal |-> "error"])
    /\ emitted' = [emitted EXCEPT !.calc = Append(@, "error")]
    /\ UNCHANGED <<fnVars, widgetVars, engineVars, calculate_btn, stored,
                   previous_trajectories, batch_trajectories, batch_thread, monte_carlo,
                   notified, requests>>

\* the UI thread takes the next queued signal
Handles(signal) ==
    /\ ~UiBusy
    /\ signals # <<>>
    /\ Head(signals).signal = signal
    /\ signals' = Tail(signals)

\* on_calculation_complete
on_calculation_complete ==
    /\ Handles("finished")
    /\ stored' = Head(signals).result
    /\ calculate_btn' = TRUE
    /\ notified' = IF Head(signals).result # <<>> THEN notified
                   ELSE Append(notified, "No trajectory data was generated")
    /\ UNCHANGED <<fnVars, widgetVars, engineVars, previous_trajectories,
                   batch_trajectories, calc_thread, batch_thread, monte_carlo, thread,
                   emitted, requests>>

\* on_calculation_error
on_calculation_error ==
    /\ Handles("error")
    /\ calculate_btn' = TRUE
    /\ notified' = Append(notified, "Calculation failed")
    /\ UNCHANGED <<fnVars, widgetVars, engineVars, stored, previous_trajectories,
                   batch_trajectories, calc_thread, batch_thread, monte_carlo, thread,
                   emitted, requests>>

\* the sweep of run_batch: start values, step and number of values (m/s)
BatchStarts == {-3 * MPS, 3 * MPS}
BatchStep == 3 * MPS
BatchRuns == 2

\* run_batch: params[sweep_key] = val for val = start, start + step, .. <= end
BatchParams(start, n) ==
    [i \in 1..n |-> [inputs EXCEPT !.velocity = start + (i - 1) * BatchStep]]

\* run_batch, sweeping the muzzle velocity: the parameter sets are created and
\* a BatchCalculationThread is started; the inputs are not validated.  The
\* model starts a batch when no batch thread is running.
run_batch ==
    /\ ~UiBusy
    /\ batch_thread.pc \in {"none", "ended"}
    /\ requests < MaxRequests
    /\ requests' = requests + 1
    /\ \E start \in BatchStarts :
          batch_thread' = [pc |-> "started", batch_params |-> BatchParams(start, BatchRuns),
                           results |-> <<>>]
    /\ emitted' = [emitted EXCEPT !.batch = <<>>]
    /\ UNCHANGED <<fnVars, widgetVars, engineVars, calculate_btn, stored,
                   previous_trajectories, batch_trajectories, calc_thread, monte_carlo,
                   thread, signals, notified>>

\* BatchCalculationThread.run: the next _calculate_trajectory call of the for loop
BatchRun ==
    /\ batch_thread.pc = "started"
    /\ thread = "none"
    /\ Len(batch_thread.results) < Len(batch_thread.batch_params)
    /\ thread' = "batch"
    /\ BeginUltimate(batch_thread.batch_params[Len(batch_thread.results) + 1])
    /\ UNCHANGED <<fnVars, widgetVars, edition, calls, calculate_btn, stored,
                   previous_trajectories, batch_trajectories, calc_thread, batch_thread,
                   monte_carlo, signals, emitted, notified, requests>>

\* results.append(...); self.progress.emit(int((i+1)/total*100))
BatchAppend ==
    /\ thread = "batch"
    /\ pc = "done"
    /\ thread' = "none"
    /\ batch_thread' = [batch_thread EXCEPT !.results = Append(@, trajectory)]
    /\ signals' = Emit([signal |-> "progress",
                        value |-> (100 * (Len(batch_thread.results) + 1))
                                      \div Len(batch_thread.batch_params)])
    /\ emitted' = [emitted EXCEPT !.batch = Append(@, "progress")]
    /\ UNCHANGED <<fnVars, widgetVars, engineVars, calculate_btn, stored,
                   previous_trajectories, batch_trajectories, calc_thread, monte_carlo,
                   notified, requests>>

\* mutant of BatchFinished: finished is emitted as soon as one call has returned
BatchFinishedEarly ==
    /\ batch_thread.pc = "started"
    /\ thread # "batch"
    /\ Len(batch_thread.results) >= 1
    /\ batch_thread' = [batch_thread EXCEPT !.pc = "ended"]
    /\ signals' = Emit([signal |-> "batch_finished", result |-> batch_thread.results])
    /\ emitted' = [emitted EXCEPT !.batch = Append(@, "finished")]
    /\ UNCHANGED <<fnVars, widgetVars, engineVars, calculate_btn, stored,
                   previous_trajectories, batch_trajectories, calc_thread, monte_carlo,
                   thread, notified, requests>>

\* after the for loop: self.finished.emit(results)
BatchFinished ==
    /\ batch_thread.pc = "started"
    /\ thread # "batch"
    /\ Len(batch_thread.results) = Len(batch_thread.batch_params)
    /\ batch_thread' = [batch_thread EXCEPT !.pc = "ended"]
    /\ signals' = Emit([signal |-> "batch_finished", result |-> batch_thread.results])
    /\ emitted' = [emitted EXCEPT !.batch = Append(@, "finished")]
    /\ UNCHANGED <<fnVars, widgetVars, engineVars, calculate_btn, stored,
                   previous_trajectories, batch_trajectories, calc_thread, monte_carlo,
                   thread, notified, requests>>

\* except Exception as e: self.error.emit(str(e))
BatchError ==
    /\ thread = "batch"
    /\ pc = "raised"
    /\ thread' = "none"
    /\ batch_thread' = [batch_thread EXCEPT !.pc = "ended"]
    /\ signals' = Emit([signal |-> "batch_error"])
    /\ emitted' = [emitted EXCEPT !.batch = Append(@, "error")]
    /\ UNCHANGED <<fnVars, widgetVars, engineVars, calculate_btn, stored,
                   previous_trajectories, batch_trajectories, calc_thread, monte_carlo,
                   notified, requests>>

\* batch_progress_bar.setValue
on_progress ==
    /\ Handles("progress")
    /\ UNCHANGED <<fnVars, widgetVars, engineVars, calculate_btn, stored,
                   previous_trajectories, batch_trajectories, calc_thread, batch_thread,
                   monte_carlo, thread, emitted, notified, requests>>

\* on_batch_complete
on_batch_complete ==
    /\ Handles("batch_finished")
    /\ batch_trajectories' = Head(signals).result
    /\ UNCHANGED <<fnVars, widgetVars, engineVars, calculate_btn, stored,
                   previous_trajectories, calc_thread, batch_thread, monte_carlo, thread,
                   emitted, notified, requests>>

\* on_batch_error
on_batch_error ==
    /\ Handles("batch_error")
    /\ notified' = Append(notified, "Batch Error")
    /\ UNCHANGED <<fnVars, widgetVars, engineVars, calculate_btn, stored,
                   previous_trajectories, batch_trajectories, calc_thread, batch_thread,
                   monte_carlo, thread, emitted, requests>>

\* what the worker threads do
Worker ==
    \/ CalcRun
    \/ CalcFinished
    \/ CalcError
    \/ BatchRun
    \/ BatchAppend
    \/ BatchFinished
    \/ BatchError
    \/ StepUltimate
    \/ Return

\* the handlers of the queued signals, run by the event loop of the UI thread
EventLoop ==
    \/ on_calculation_complete
    \/ on_calculation_error
    \/ on_progress
    \/ on_batch_complete
    \/ on_batch_error

NextApp ==
    \/ SetTypeCombo
    \/ SetBurnTime
    \/ Calculate
    \/ run_batch
    \/ Worker
    \/ EventLoop

\* the threads run and the event loop handles what is queued
\* the worker threads other than inside the loop of _calculate_trajectory
WorkerCalls ==
    \/ CalcRun
    \/ CalcFinished
    \/ CalcError
    \/ BatchRun
    \/ BatchAppend
    \/ BatchFinished
    \/ BatchError
    \/ Return

\* weak fairness of StepUltimate, with its enabling condition written out
LoopRuns == []<>~(pc = "loop" /\ LoopCondUltimate) \/ []<><<StepUltimate>>_vars

\* the threads run and the event loop handles what is queued
SpecApp ==
    InitApp /\ [][NextApp]_vars /\ WF_vars(WorkerCalls) /\ WF_vars(EventLoop) /\ LoopRuns

----------------------------------------------------------------------------
(* Claims about the application *)

(* C11: invalid input never reaches integration: whenever
   _calculate_trajectory runs, on whatever path it was called, its arguments
   have mass > 0, diameter > 0 and velocity > 0, and the burn time is >= 0. *)
C11_OnlyValidArgumentsReachTheEngine ==
    pc = "loop" =>
        /\ params.mass > 0
        /\ params.diameter > 0
        /\ params.velocity > 0
        /\ projectile.burn_time >= 0

Shown(message) == \E i \in 1..Len(notified) : notified[i] = message

\* _calculate_trajectory, called by the CalculationThread, has raised
CalcRaised == thread = "calc" /\ pc = "raised"

(* C12: each run of CalculationThread emits exactly one of finished and
   error: nothing while it runs, one signal once it has ended, error exactly
   when _calculate_trajectory raised; the run always ends; an exception leads
   to the calculation-failed message, and handling the error signal leaves
   the stored trajectory as it was. *)
C12_ExactlyOneSignalPerRun ==
    /\ [](/\ calc_thread.pc \in {"started", "running"} => emitted.calc = <<>>
          /\ calc_thread.pc = "ended" => emitted.calc \in {<<"finished">>, <<"error">>})
    /\ [][emitted'.calc # emitted.calc /\ emitted'.calc # <<>>
            => emitted'.calc = IF CalcRaised THEN <<"error">> ELSE <<"finished">>]_vars
    /\ [][signals # <<>> /\ Head(signals).signal = "error" /\ signals' = Tail(signals)
            => stored' = stored /\ Shown("Calculation failed")']_vars
    /\ (calc_thread.pc = "started") ~> (calc_thread.pc = "ended")
    /\ CalcRaised ~> Shown("Calculation failed")

\* a trajectory is stored, a later calculation has raised and its error signal
\* has been handled
C12_Witness ==
    /\ stored # <<>>
    /\ calc_thread.pc = "ended"
    /\ emitted.calc = <<"error">>
    /\ signals = <<>>
    /\ Shown("Calculation failed")

\* how many times a thread object has emitted the signal
Count(log, signal) == Cardinality({i \in 1..Len(log) : log[i] = signal})

\* results[i] is what a call with batch_params[i] returned, the calls in order
InOrder(batch_params, results) ==
    /\ Len(results) = Len(batch_params)
    /\ \E f \in [1..Len(results) -> 1..Len(calls)] :
          /\ \A i \in 1..Len(results) :
                /\ calls[f[i]].params = batch_params[i]
                /\ calls[f[i]].trajectory = results[i]
          /\ \A i \in 1..Len(results) : \A j \in 1..Len(results) : i < j => f[i] < f[j]

\* _calculate_trajectory, called by the BatchCalculationThread, has raised
BatchRaised == thread = "batch" /\ pc = "raised"

(* C13: a BatchCalculationThread emits finished or error exactly once, as its
   last signal, and never both; finished carries exactly one trajectory per
   parameter set, in the order of the parameter sets, each returned by a call
   with that parameter set; when a call raises, error is emitted and finished
   is not; the run always ends. *)
C13_BatchAllOrNothing ==
    /\ [](/\ batch_thread.pc = "started"
              => Count(emitted.batch, "finished") + Count(emitted.batch, "error") = 0
          /\ batch_thread.pc = "ended"
              => /\ Count(emitted.batch, "finished") + Count(emitted.batch, "error") = 1
                 /\ emitted.batch[Len(emitted.batch)] \in {"finished", "error"})
    /\ [][Count(emitted'.batch, "finished") > Count(emitted.batch, "finished")
            => /\ ~BatchRaised
               /\ signals' = Append(signals, [signal |-> "batch_finished",
                                               result |-> batch_thread.results])
               /\ InOrder(batch_thread.batch_params, batch_thread.results)]_vars
    /\ [][BatchRaised /\ emitted'.batch # emitted.batch
            => emitted'.batch = Append(emitted.batch, "error")]_vars
    /\ (batch_thread.pc = "started") ~> (batch_thread.pc = "ended")

\* a batch has finished and its trajectories, one per parameter set, are shown
C13_Witness ==
    /\ batch_thread.pc = "ended"
    /\ emitted.batch = <<"progress", "progress", "finished">>
    /\ Len(batch_trajectories) = BatchRuns
    /\ batch_trajectories = batch_thread.results
    /\ batch_trajectories[1] # batch_trajectories[2]

(* C15: at most one single-shot calculation is in flight.  The Calculate
   button is disabled from the moment a Calculate is accepted until its
   finished or error signal has been handled, a Calculate is accepted only
   while nothing is in flight, and the button is always enabled again. *)
CalcSignalsQueued ==
    Cardinality({i \in 1..Len(signals) : signals[i].signal \in {"finished", "error"}})
CalcThreadsLive == IF calc_thread.pc \in {"started", "running"} THEN 1 ELSE 0
CalcInFlight == CalcThreadsLive + CalcSignalsQueued

----------------------------------------------------------------------------
(* The comparison history (Ultimate Edition): the user calculates again and
   again, switching between the bullet and the rocket type and editing the
   burn time in between; a rocket with burn time 0 makes the calculation fail *)

MaxHistory == 5

\* a shell of 430 kg, which the default motor (1000 N for 1 s) hardly lifts
HeavyShell == [mass |-> 430000000, diameter |-> 155000]

HistoryInputSets == {Inputs(HeavyShell, "G7", 3 * MPS, 45, SeaLevel, 0, 0, FALSE, 45)}

InitHistory ==
    /\ fn = "none"
    /\ fnArg = <<>>
    /\ fnRet = <<>>
    /\ InitWidgets
    /\ InitEngine
    /\ InitThreads
    /\ inputs \in HistoryInputSets
    /\ edition = "ultimate"

\* the user picks the other projectile type; update_projectile_type refills
\* the drag model combo box
PickType ==
    /\ pc # "loop"
    /\ \E t \in {"bullet", "rocket"} \ {type_combo} :
          /\ type_combo' = t
          /\ inputs' = [inputs EXCEPT !.drag_model = DragModelItems(t)[1]]
    /\ UNCHANGED <<fnVars, engineVars, threadVars, thrust_input, burn_time_input,
                   custom_drag_curve, changes>>

\* the user edits the burn time
EditBurnTime ==
    /\ pc # "loop"
    /\ \E b \in {0, 1000} \ {burn_time_input} : burn_time_input' = b
    /\ UNCHANGED <<fnVars, engineVars, threadVars, type_combo, thrust_input,
                   custom_drag_curve, inputs, changes>>

CalculateAgain == CalculateWithin(MaxHistory)

NextHistory ==
    \/ PickType
    \/ EditBurnTime
    \/ CalculateAgain
    \/ CalcRun
    \/ StepUltimate
    \/ Return
    \/ CalcFinished
    \/ CalcError
    \/ on_calculation_complete
    \/ on_calculation_error

SpecHistory == InitHistory /\ [][NextHistory]_vars

\* the last three elements of a list
LastThree(list) == IF Len(list) <= 3 THEN list ELSE SubSeq(list, Len(list) - 2, Len(list))

\* C30: previous_trajectories holds at most 3 entries, none of them empty.
\* It changes only when a Calculate is accepted while the current trajectory
\* is not empty: that trajectory is appended after the entries already there
\* and the oldest entry is dropped when there would be more than 3.  The
\* current trajectory is replaced only by the result of a calculation that
\* finished, so a calculation that failed adds no entry for itself.
C30_PreviousTrajectories ==
    /\ [](/\ Len(previous_trajectories) <= 3
          /\ \A i \in DOMAIN previous_trajectories : previous_trajectories[i] # <<>>)
    /\ [][/\ previous_trajectories' # previous_trajectories
             => /\ requests' = requests + 1
                /\ stored # <<>>
                /\ previous_trajectories' = LastThree(Append(previous_trajectories, stored))
          /\ stored' # stored
             => /\ signals # <<>>
                /\ Head(signals).signal = "finished"
                /\ stored' = Head(signals).result]_vars

\* the fifth Calculate has dropped the oldest entry, after a calculation
\* that failed, and the entries kept are not all the same trajectory
C30_Witness ==
    /\ requests = MaxHistory
    /\ Len(previous_trajectories) = 3
    /\ previous_trajectories[1] # previous_trajectories[3]
    /\ \E i \in DOMAIN notified : notified[i] = "Calculation failed"

----------------------------------------------------------------------------
(* run_monte_carlo (Ultimate Edition): a slot of the Run Monte Carlo button.
   It calls _calculate_trajectory num_runs times in a for loop, with the
   angle and the velocity perturbed by random.uniform(-spread, spread).  The
   widgets stay as they are at the start (type Bullet), so no call raises. *)

NUM_RUNS == 10                \* mc_runs_input, range 10 .. 1000
VelocitySpread == 2 * MPS     \* mc_spread_velocity, range 0 .. 100
\* random.uniform(-vel_spread, vel_spread): the two ends stand for the interval
VelocityDraws == {-VelocitySpread, VelocitySpread}

MonteCarloInputSets ==
    {Inputs(Shell, "G7", 1 * MPS, a, SeaLevel, 0, 0, FALSE, 45) : a \in {45}}

InitMonteCarlo ==
    /\ fn = "none"
    /\ fnArg = <<>>
    /\ fnRet = <<>>
    /\ InitWidgets
    /\ InitEngine
    /\ InitThreads
    /\ inputs \in MonteCarloInputSets
    /\ edition = "ultimate"

\* run_monte_carlo up to the for loop (the angle spread is 0)
run_monte_carlo ==
    /\ ~UiBusy
    /\ requests < 1
    /\ requests' = requests + 1
    /\ monte_carlo' = [pc |-> "running", left |-> NUM_RUNS, base_params |-> inputs]
    /\ UNCHANGED <<fnVars, widgetVars, engineVars, calculate_btn, stored,
                   previous_trajectories, batch_trajectories, calc_thread, batch_thread,
                   thread, signals, emitted, notified>>

\* for i in range(num_runs): params is perturbed and
\* traj = self._calculate_trajectory is called, in the slot itself
MonteCarloRun ==
    /\ monte_carlo.pc = "running"
    /\ thread = "none"
    /\ thread' = "ui"
    /\ \E dv \in VelocityDraws :
          BeginUltimate([monte_carlo.base_params EXCEPT !.velocity = @ + dv])
    /\ UNCHANGED <<fnVars, widgetVars, edition, calls, calculate_btn, stored,
                   previous_trajectories, batch_trajectories, calc_thread, batch_thread,
                   monte_carlo, signals, emitted, notified, requests>>

\* the trajectory is plotted and the progress bar set; after the last run the
\* slot returns
MonteCarloPlot ==
    /\ thread = "ui"
    /\ pc = "done"
    /\ thread' = "none"
    /\ monte_carlo' = IF monte_carlo.left = 1 THEN [pc |-> "idle"]
                      ELSE [monte_carlo EXCEPT !.left = @ - 1]
    /\ UNCHANGED <<fnVars, widgetVars, engineVars, calculate_btn, stored,
                   previous_trajectories, batch_trajectories, calc_thread, batch_thread,
                   signals, emitted, notified, requests>>

NextMonteCarlo ==
    \/ run_monte_carlo
    \/ MonteCarloRun
    \/ StepUltimate
    \/ Return
    \/ MonteCarloPlot

SpecMonteCarlo == InitMonteCarlo /\ [][NextMonteCarlo]_vars

(* C14: every _calculate_trajectory call runs on a worker thread: the UI
   thread is never inside the integration loop. *)
C14_IntegrationOffTheUiThread == pc = "loop" => thread # "ui"

====
